---- MODULE Spec2Model ----
(***************************************************************************)
(* EverBloom: the relationship-strength scoring trigger of the database    *)
(* schema, the client handlers that write to it, and the notification      *)
(* derivation pass of the NotificationCenter component.                    *)
(*                                                                         *)
(* Time is counted in whole hours since 1970-01-01T00:00Z.  The browser    *)
(* runs in a zone with a fixed offset tz (hours east of UTC, no DST).      *)
(***************************************************************************)
EXTENDS Integers, Sequences, FiniteSets, TLC

VARIABLES
  now,               \* the current instant (database NOW() and client new Date())
  tz,                \* UTC offset of the browser, in hours
  relationships,     \* table relationships: id -> row
  interaction_logs,  \* table interaction_logs: set of rows
  ai_suggestions,    \* table ai_suggestions: set of rows
  nextId,            \* ids handed out so far (gen_random_uuid never repeats)
  logger,            \* InteractionLogger.onSubmit: position and arguments
  sender,            \* Messages.handleSendMessage: position and arguments
  notifications,     \* NotificationCenter state: the displayed feed
  loading,           \* NotificationCenter state: loading flag
  isOpen,            \* NotificationCenter prop: the panel is shown
  pass,              \* generateNotifications: the passes in flight, oldest first
  derived,           \* history: today and the fetched data the displayed feed was built from
  lastOp,            \* history: the last statement executed against the store
  lidWrites          \* history: logs whose follow-up relationship update was applied

vars == <<now, tz, relationships, interaction_logs, ai_suggestions, nextId,
          logger, sender, notifications, loading, isOpen, pass, derived,
          lastOp, lidWrites>>

clockVars == <<now, tz>>
handlerVars == <<logger, sender>>

storeVars == <<relationships, interaction_logs, ai_suggestions, nextId>>
feedVars  == <<notifications, loading, isOpen, pass, derived>>

-----------------------------------------------------------------------------
(* Bounds *)

MaxRels == 2          \* relationships ever created
MaxLogs == 1          \* interaction logs ever created
MaxStmts == 1         \* UPDATE requests on relationships in one behaviour
MaxDays == 31         \* days the clock advances in one behaviour
MaxPasses == 1        \* derivation passes in flight at once
MaxOverlap == 2       \* derivation passes in flight at once, where passes overlap

-----------------------------------------------------------------------------
(* Program constants *)

HoursPerDay == 24
DefaultScore == 50
NullScore == 30
MaxScore_Raised == 110
MaxScore == 100
MinScore == 0

NULL == <<>>
Some(v) == <<v>>
Val(o) == o[1]

User == "u1"

Min(a, b) == IF a <= b THEN a ELSE b
Max(a, b) == IF a >= b THEN a ELSE b

-----------------------------------------------------------------------------
(* PostgreSQL: EXTRACT(DAY FROM a - b) for two timestamptz values.  The     *)
(* difference is an interval of days and time; its day field is the         *)
(* quotient truncated toward zero.                                          *)

ExtractDay(interval) ==
  IF interval >= 0 THEN interval \div HoursPerDay
                   ELSE 0 - ((0 - interval) \div HoursPerDay)

ScoreCase_StrictThree(score, lid, t) ==
  IF lid = NULL THEN NullScore
  ELSE IF ExtractDay(t - Val(lid)) < 3 THEN Min(score + 10, MaxScore)
  ELSE IF ExtractDay(t - Val(lid)) <= 7 THEN Min(score + 5, MaxScore)
  ELSE IF ExtractDay(t - Val(lid)) > 30 THEN Max(score - 15, MinScore)
  ELSE score

ScoreCase_NullKeeps(score, lid, t) ==
  IF lid = NULL THEN score
  ELSE IF ExtractDay(t - Val(lid)) <= 3 THEN Min(score + 10, MaxScore)
  ELSE IF ExtractDay(t - Val(lid)) <= 7 THEN Min(score + 5, MaxScore)
  ELSE IF ExtractDay(t - Val(lid)) > 30 THEN Max(score - 15, MinScore)
  ELSE score

ScoreCase_RecentOnly(score, lid, t) ==
  IF lid = NULL THEN NullScore
  ELSE IF ExtractDay(t - Val(lid)) \in 0..3 THEN Min(score + 10, MaxScore)
  ELSE IF ExtractDay(t - Val(lid)) <= 7 THEN Min(score + 5, MaxScore)
  ELSE IF ExtractDay(t - Val(lid)) > 30 THEN Max(score - 15, MinScore)
  ELSE score

(* The CASE expression of update_relationship_strength. *)
ScoreCase(score, lid, t) ==
  IF lid = NULL THEN NullScore
  ELSE IF ExtractDay(t - Val(lid)) <= 3 THEN Min(score + 10, MaxScore)
  ELSE IF ExtractDay(t - Val(lid)) <= 7 THEN Min(score + 5, MaxScore)
  ELSE IF ExtractDay(t - Val(lid)) > 30 THEN Max(score - 15, MinScore)
  ELSE score

(* CHECK (relationship_strength_score >= 0 AND relationship_strength_score <= 100) *)
ScoreCheck(row) ==
  row.relationship_strength_score >= MinScore /\ row.relationship_strength_score <= MaxScore

(* BEFORE UPDATE ON relationships: NEW.updated_at = now() *)
update_updated_at_column(new, t) == [new EXCEPT !.updated_at = t]

FiresStrengthTrigger_OnChange(cols, old, new) ==
  old.last_interaction_date # new.last_interaction_date

FiresStrengthTrigger_AnyDate(cols, old, new) ==
  cols \cap {"last_interaction_date", "important_dates_json"} # {}

(* AFTER UPDATE OF last_interaction_date: the trigger fires when the column *)
(* is a target of the statement's SET list, whatever the value.             *)
FiresStrengthTrigger(cols, old, new) == "last_interaction_date" \in cols

ApplySet(row, set) == [c \in DOMAIN row |-> IF c \in DOMAIN set THEN set[c] ELSE row[c]]

(* The SET list of the UPDATE inside update_relationship_strength. *)
update_relationship_strength(cur, newRow, t) ==
  [relationship_strength_score |->
       ScoreCase(cur.relationship_strength_score, newRow.last_interaction_date, t),
   updated_at |-> t]

(* One UPDATE statement on one row: the BEFORE trigger, the row write, the  *)
(* AFTER trigger with its nested UPDATE.  Result: the row and the number of *)
(* times update_relationship_strength ran.                                  *)
RECURSIVE ExecUpdate(_, _, _)
ExecUpdate(row, set, t) ==
  LET new == update_updated_at_column(ApplySet(row, set), t)
  IN  IF FiresStrengthTrigger(DOMAIN set, row, new)
        THEN LET nested == ExecUpdate(new, update_relationship_strength(new, new, t), t)
             IN  [row |-> nested.row, fires |-> nested.fires + 1]
        ELSE [row |-> new, fires |-> 0]

-----------------------------------------------------------------------------
(* The proleptic Gregorian calendar, as JavaScript Date and PostgreSQL use  *)
(* it.                                                                      *)

IsLeap(y) == (y % 4 = 0 /\ y % 100 # 0) \/ y % 400 = 0
LeapsBefore(y) == ((y - 1) \div 4) - ((y - 1) \div 100) + ((y - 1) \div 400)
DaysBeforeYear(y) == 365 * (y - 1970) + LeapsBefore(y) - LeapsBefore(1970)
CumDays == <<0, 31, 59, 90, 120, 151, 181, 212, 243, 273, 304, 334>>
DaysBeforeMonth(y, m) == CumDays[m] + (IF m > 2 /\ IsLeap(y) THEN 1 ELSE 0)
DaysInMonth(y, m) ==
  IF m = 2 THEN (IF IsLeap(y) THEN 29 ELSE 28)
  ELSE IF m \in {4, 6, 9, 11} THEN 30 ELSE 31

(* MakeDay of ECMAScript: the day number of (y, m, 1) plus d - 1, so a day  *)
(* past the end of the month runs over into the next one.                   *)
MakeDay(y, m, d) == DaysBeforeYear(y) + DaysBeforeMonth(y, m) + d - 1

(* The instant of h o'clock UTC on the civil date (y, m, d). *)
Instant(y, m, d, h) == MakeDay(y, m, d) * HoursPerDay + h

StartNow == Instant(2025, 1, 10, 2)

-----------------------------------------------------------------------------
(* Inputs *)

(* How long before the write the written date lies, in hours. *)
Deltas == {0 - 36, 3 * 24 + 23, 7 * 24 + 23, 30 * 24 + 23, 31 * 24}

(* How long before the submission the logged interaction happened: the      *)
(* datetime-local field of the logger takes any value, the future included. *)
LoggerDeltas == {0 - 36, 31 * 24}

TickSteps == {31 * 24}

DateChoices == {<<>>, <<[name |-> "Birthday", date |-> [y |-> 2000, m |-> 1, d |-> 15]]>>}

-----------------------------------------------------------------------------
(* Store statements *)

NoOp == [op |-> "none", rel |-> 0, cols |-> {}, lid |-> NULL, prev |-> 0,
         prevLid |-> NULL, fires |-> 0, ok |-> TRUE, again |-> FALSE, stale |-> NULL]

NewRelationship_Scored(dates, t) ==
  [user_id |-> User,
   important_dates_json |-> dates,
   last_interaction_date |-> NULL,
   relationship_strength_score |-> ScoreCase(DefaultScore, NULL, t),
   created_at |-> t,
   updated_at |-> t]

(* INSERT INTO relationships: the column defaults of the table and the      *)
(* values AddRelationshipModal.onSubmit supplies.  No trigger is defined    *)
(* for INSERT.                                                              *)
NewRelationship(dates, t) ==
  [user_id |-> User,
   important_dates_json |-> dates,
   last_interaction_date |-> NULL,
   relationship_strength_score |-> DefaultScore,
   created_at |-> t,
   updated_at |-> t]

(* UPDATE relationships SET ... WHERE id = r, issued by the owner of r.  A  *)
(* row that no longer exists matches nothing and the statement succeeds.    *)
UpdateRelationship(r, set) ==
  IF r \in DOMAIN relationships
    THEN LET res == ExecUpdate(relationships[r], set, now)
             ok  == ScoreCheck(res.row)
         IN  /\ relationships' = IF ok THEN [relationships EXCEPT ![r] = res.row]
                                       ELSE relationships
             /\ lastOp' = [op |-> "update", rel |-> r, cols |-> DOMAIN set,
                           lid |-> IF "last_interaction_date" \in DOMAIN set
                                     THEN set.last_interaction_date ELSE NULL,
                           prev |-> relationships[r].relationship_strength_score,
                           prevLid |-> relationships[r].last_interaction_date,
                           fires |-> res.fires, ok |-> ok]
    ELSE /\ relationships' = relationships
         /\ lastOp' = [NoOp EXCEPT !.op = "update", !.rel = r, !.cols = DOMAIN set]

-----------------------------------------------------------------------------
(* Initial state: an empty store, nothing in flight. *)

Idle == [pc |-> "idle", rel |-> 0, timestamp |-> 0, log |-> 0]
NoFeed == [today |-> 0, rows |-> <<>>, order |-> <<>>, suggestions |-> <<>>]

(* Scores a relationship can have reached through earlier writes (multiples *)
(* of 5): those within one step of either end of the range, and the middle. *)
(* A write 10 days after the interaction leaves the score as it is, so each *)
(* of them occurs with such a date.                                         *)
ScoreSeeds == {0, 5, 10, 15, 50, 85, 90, 95, 100}
SeedAge == 10 * HoursPerDay

SeedStores ==
  {<<>>} \cup
  {<<[NewRelationship(<<>>, StartNow - SeedAge)
        EXCEPT !.relationship_strength_score = s,
               !.last_interaction_date = Some(StartNow - SeedAge)]>> : s \in ScoreSeeds}

Init ==
  /\ now = StartNow
  /\ tz = 0
  /\ relationships \in SeedStores
  /\ interaction_logs = {}
  /\ ai_suggestions = {}
  /\ nextId = [rel |-> Len(relationships), log |-> 0, stmt |-> 0]
  /\ logger = Idle
  /\ sender = Idle
  /\ notifications = <<>>
  /\ loading = TRUE
  /\ isOpen = FALSE
  /\ pass = <<>>
  /\ derived = NoFeed
  /\ lastOp = NoOp
  /\ lidWrites = {}

-----------------------------------------------------------------------------
(* Actions of the store and of the handlers that write to it *)

(* AddRelationshipModal.onSubmit *)
AddRelationship(dates) ==
  /\ nextId.rel < MaxRels
  /\ LET id == nextId.rel + 1
     IN  /\ relationships' = [r \in DOMAIN relationships \cup {id} |->
                                IF r = id THEN NewRelationship(dates, now)
                                          ELSE relationships[r]]
         /\ nextId' = [nextId EXCEPT !.rel = id]
         /\ lastOp' = [NoOp EXCEPT !.op = "insert", !.rel = id]
  /\ UNCHANGED <<clockVars, interaction_logs, ai_suggestions, handlerVars, feedVars, lidWrites>>

(* An UPDATE of a relationship by its owner that names last_interaction_date *)
(* in its SET list: a date or null.                                          *)
WriteLastInteractionDate(r, v) ==
  /\ r \in DOMAIN relationships
  /\ nextId.stmt < MaxStmts
  /\ UpdateRelationship(r, [last_interaction_date |-> v])
  /\ nextId' = [nextId EXCEPT !.stmt = @ + 1]
  /\ UNCHANGED <<clockVars, interaction_logs, ai_suggestions, handlerVars, feedVars, lidWrites>>

(* An UPDATE of a relationship by its owner that leaves last_interaction_date *)
(* out of its SET list.                                                       *)
WriteOtherField(r, set) ==
  /\ r \in DOMAIN relationships
  /\ nextId.stmt < MaxStmts
  /\ UpdateRelationship(r, set)
  /\ nextId' = [nextId EXCEPT !.stmt = @ + 1]
  /\ UNCHANGED <<clockVars, interaction_logs, ai_suggestions, handlerVars, feedVars, lidWrites>>

OtherSets == {[important_dates_json |-> d] : d \in DateChoices}

(* Relationships.handleDeleteRelationship: ON DELETE CASCADE removes the    *)
(* logs and the suggestions of the relationship.                            *)
handleDeleteRelationship(r) ==
  /\ r \in DOMAIN relationships
  /\ relationships' = [x \in DOMAIN relationships \ {r} |-> relationships[x]]
  /\ interaction_logs' = {l \in interaction_logs : l.relationship_id # r}
  /\ ai_suggestions' = {s \in ai_suggestions : s.relationship_id # Some(r)}
  /\ lastOp' = [NoOp EXCEPT !.op = "delete", !.rel = r]
  /\ UNCHANGED <<clockVars, nextId, handlerVars, feedVars, lidWrites>>

(* Time passes. *)
Tick(d) ==
  /\ now + d <= StartNow + MaxDays * HoursPerDay
  /\ now' = now + d
  /\ lastOp' = [NoOp EXCEPT !.op = "tick"]
  /\ UNCHANGED <<tz, storeVars, handlerVars, feedVars, lidWrites>>

(* InteractionLogger.onSubmit, first request: insert the log. *)
LoggerInsert(r, ts) ==
  /\ logger.pc = "idle"
  /\ r \in DOMAIN relationships
  /\ nextId.log < MaxLogs
  /\ nextId.stmt < MaxStmts
  /\ LET id == nextId.log + 1
     IN  /\ interaction_logs' = interaction_logs \cup
               {[id |-> id, relationship_id |-> r, timestamp |-> ts]}
         /\ nextId' = [nextId EXCEPT !.log = id, !.stmt = @ + 1]
         /\ logger' = [pc |-> "update", rel |-> r, timestamp |-> ts, log |-> id]
         /\ lastOp' = [NoOp EXCEPT !.op = "log", !.rel = r]
  /\ UNCHANGED <<clockVars, relationships, ai_suggestions, sender, feedVars, lidWrites>>

(* InteractionLogger.onSubmit, second request: update the relationship.  The *)
(* request can fail (updateError), which leaves the store as it is.          *)
LoggerUpdate(fails) ==
  /\ logger.pc = "update"
  /\ IF fails
       THEN /\ lastOp' = [NoOp EXCEPT !.op = "error", !.rel = logger.rel]
            /\ UNCHANGED <<relationships, lidWrites>>
       ELSE /\ UpdateRelationship(logger.rel,
                  [last_interaction_date |-> Some(logger.timestamp), updated_at |-> now])
            /\ lidWrites' = IF logger.rel \in DOMAIN relationships
                              THEN lidWrites \cup {logger.log} ELSE lidWrites
  /\ logger' = Idle
  /\ UNCHANGED <<clockVars, interaction_logs, ai_suggestions, nextId, sender, feedVars>>

(* Messages.handleSendMessage, first request: insert the log. *)
SendInsert(r) ==
  /\ sender.pc = "idle"
  /\ r \in DOMAIN relationships
  /\ nextId.log < MaxLogs
  /\ nextId.stmt < MaxStmts
  /\ LET id == nextId.log + 1
     IN  /\ interaction_logs' = interaction_logs \cup
               {[id |-> id, relationship_id |-> r, timestamp |-> now]}
         /\ nextId' = [nextId EXCEPT !.log = id, !.stmt = @ + 1]
         /\ sender' = [pc |-> "update", rel |-> r, timestamp |-> now, log |-> id]
         /\ lastOp' = [NoOp EXCEPT !.op = "log", !.rel = r]
  /\ UNCHANGED <<clockVars, relationships, ai_suggestions, logger, feedVars, lidWrites>>

(* Messages.handleSendMessage, second request: update the relationship with *)
(* the time of the request; its error is not inspected.                     *)
SendUpdate(fails) ==
  /\ sender.pc = "update"
  /\ IF fails
       THEN /\ lastOp' = [NoOp EXCEPT !.op = "error", !.rel = sender.rel]
            /\ UNCHANGED <<relationships, lidWrites>>
       ELSE /\ UpdateRelationship(sender.rel,
                  [last_interaction_date |-> Some(now), updated_at |-> now])
            /\ lidWrites' = IF sender.rel \in DOMAIN relationships
                              THEN lidWrites \cup {sender.log} ELSE lidWrites
  /\ sender' = Idle
  /\ UNCHANGED <<clockVars, interaction_logs, ai_suggestions, nextId, logger, feedVars>>

RelIds == 1..MaxRels

Next ==
  \/ \E dates \in DateChoices : AddRelationship(dates)
  \/ \E r \in RelIds : WriteLastInteractionDate(r, NULL)
  \/ \E r \in RelIds, k \in Deltas : WriteLastInteractionDate(r, Some(now - k))
  \/ \E r \in DOMAIN relationships :
        WriteLastInteractionDate(r, relationships[r].last_interaction_date)
  \/ \E r \in RelIds, set \in OtherSets : WriteOtherField(r, set)
  \/ \E r \in RelIds : handleDeleteRelationship(r)
  \/ \E d \in TickSteps : Tick(d)
  \/ \E r \in RelIds, k \in LoggerDeltas : LoggerInsert(r, now - k)
  \/ \E fails \in BOOLEAN : LoggerUpdate(fails)
  \/ \E r \in RelIds : SendInsert(r)
  \/ \E fails \in BOOLEAN : SendUpdate(fails)

Spec == Init /\ [][Next]_vars


-----------------------------------------------------------------------------
(* Date arithmetic of the notification pass (JavaScript Date and date-fns   *)
(* in a zone of fixed offset tz).                                           *)

FloorDays(h) == h \div HoursPerDay
CeilDays(h) == 0 - ((0 - h) \div HoursPerDay)

(* The civil date of a day number. *)
YearOfDay(n) ==
  CHOOSE y \in (1969 + (n \div 366))..(1971 + (n \div 365)) :
    DaysBeforeYear(y) <= n /\ n < DaysBeforeYear(y + 1)
MonthOfDay(n) ==
  LET y == YearOfDay(n)
  IN  CHOOSE m \in 1..12 :
        /\ DaysBeforeYear(y) + DaysBeforeMonth(y, m) <= n
        /\ n < DaysBeforeYear(y) + DaysBeforeMonth(y, m) + DaysInMonth(y, m)
Civil(n) ==
  [y |-> YearOfDay(n), m |-> MonthOfDay(n),
   d |-> n - DaysBeforeYear(YearOfDay(n)) - DaysBeforeMonth(YearOfDay(n), MonthOfDay(n)) + 1]

(* startOfDay(t): local midnight of the local day of t. *)
startOfDay(t) == ((t + tz) \div HoursPerDay) * HoursPerDay - tz

(* addDays(t, n) *)
addDays(t, n) == t + n * HoursPerDay

(* t.getFullYear(): the local year. *)
getFullYear(t) == Civil((t + tz) \div HoursPerDay).y

(* The time value of an Invalid Date, apart from every instant. *)
NaN == 0 - 1000000000

(* t.setFullYear(y): the local month, day and time of day are kept and the  *)
(* instant is rebuilt with MakeDay.  A time value of NaN is taken as +0     *)
(* first, so an Invalid Date becomes 1 January of y, local midnight.        *)
setFullYear(t, y) ==
  LET loc == IF t = NaN THEN 0 ELSE t + tz
      c   == Civil(loc \div HoursPerDay)
  IN  MakeDay(y, c.m, c.d) * HoursPerDay + (loc % HoursPerDay) - tz

(* new Date("YYYY-MM-DD"): a date-only string is midnight UTC; a string that *)
(* is no date (here: one with a month outside 1..12) gives an Invalid Date.  *)
ParseDate(dateStr) ==
  IF dateStr.m \in 1..12 THEN Instant(dateStr.y, dateStr.m, dateStr.d, 0) ELSE NaN

(* Lines 376-383: the occurrence of the stored date that the pass considers. *)
NextOccurrence(dateStr, today) ==
  LET thisYear == setFullYear(ParseDate(dateStr), getFullYear(today))
  IN  IF thisYear < today THEN setFullYear(thisYear, getFullYear(today) + 1)
                          ELSE thisYear

isWithinInterval_EndExclusive(date, start, end) == date >= start /\ date < end

(* isWithinInterval(date, {start, end}): both ends belong to the interval. *)
isWithinInterval(date, start, end) == date >= start /\ date <= end

(* name.toLowerCase().includes('birthday') on the labels in use. *)
Labels == {"Birthday", "Anniversary"}
IncludesBirthday(name) == name \in {"Birthday"}

-----------------------------------------------------------------------------
(* generateNotifications: the candidates of one relationship *)

NotificationId(kind, ref, name, n) == [kind |-> kind, ref |-> ref, name |-> name, n |-> n]

(* The text of an id, character by character, as the template literals put  *)
(* it together.  Two characters stand for the 36 of a uuid: like a uuid they *)
(* are of fixed length and hold no letter beyond f.                          *)
Digit(k) == <<"0", "1", "2", "3", "4", "5", "6", "7", "8", "9">>[k + 1]

RECURSIVE Decimal(_)
Decimal(n) == IF n < 10 THEN <<Digit(n)>> ELSE Decimal(n \div 10) \o <<Digit(n % 10)>>

Uuid(n) == <<Digit((n \div 10) % 10), Digit(n % 10)>>

LabelText(name) ==
  CASE name = "Birthday" -> <<"B", "i", "r", "t", "h", "d", "a", "y">>
    [] name = "Anniversary" -> <<"A", "n", "n", "i", "v", "e", "r", "s", "a", "r", "y">>

IdText(id) ==
  CASE id.kind = "date" -> Uuid(id.ref) \o <<"-">> \o LabelText(id.name)
    [] id.kind = "reminder" ->
         <<"r", "e", "m", "i", "n", "d", "e", "r", "-">> \o Uuid(id.ref)
    [] id.kind = "milestone" ->
         <<"m", "i", "l", "e", "s", "t", "o", "n", "e", "-">> \o Uuid(id.ref)
           \o <<"-">> \o Decimal(id.n)
    [] id.kind = "suggestion" ->
         <<"s", "u", "g", "g", "e", "s", "t", "i", "o", "n", "-">> \o Uuid(id.ref)

DatePriority_WeekHigh(daysUntil) ==
  IF daysUntil <= 7 THEN "high" ELSE "low"

DatePriority(daysUntil) ==
  IF daysUntil <= 3 THEN "high" ELSE IF daysUntil <= 7 THEN "medium" ELSE "low"

DateNotification(rid, entry, today) ==
  LET date      == NextOccurrence(entry.date, today)
      daysUntil == CeilDays(date - today)
  IN  [id |-> NotificationId("date", rid, entry.name, 0),
       type |-> IF IncludesBirthday(entry.name) THEN "birthday" ELSE "anniversary",
       relationshipId |-> Some(rid),
       date |-> date,
       days |-> daysUntil,
       isRead |-> FALSE,
       priority |-> DatePriority(daysUntil)]

DateEmitted(entry, today) ==
  isWithinInterval(NextOccurrence(entry.date, today), today, addDays(today, 30))

DateNotifications(rid, row, today) ==
  LET dates == row.important_dates_json
      kept  == SelectSeq(dates, LAMBDA e : DateEmitted(e, today))
  IN  [i \in 1..Len(kept) |-> DateNotification(rid, kept[i], today)]

daysSinceLastInteraction(row, today) ==
  IF row.last_interaction_date # NULL
    THEN FloorDays(today - Val(row.last_interaction_date))
    ELSE 999

ReminderPriority(days) ==
  IF days >= 30 THEN "high" ELSE IF days >= 14 THEN "medium" ELSE "low"

ReminderNotifications_Now(rid, row, today) ==
  LET days == daysSinceLastInteraction(row, today)
  IN  IF days >= 7
        THEN <<[id |-> NotificationId("reminder", rid, "", 0),
                type |-> "reminder",
                relationshipId |-> Some(rid),
                date |-> now,
                days |-> days,
                isRead |-> FALSE,
                priority |-> ReminderPriority(days)]>>
        ELSE <<>>

ReminderNotifications_AfterWeek(rid, row, today) ==
  LET days == daysSinceLastInteraction(row, today)
  IN  IF days > 7
        THEN <<[id |-> NotificationId("reminder", rid, "", 0),
                type |-> "reminder",
                relationshipId |-> Some(rid),
                date |-> today,
                days |-> days,
                isRead |-> FALSE,
                priority |-> ReminderPriority(days)]>>
        ELSE <<>>

ReminderNotifications(rid, row, today) ==
  LET days == daysSinceLastInteraction(row, today)
  IN  IF days >= 7
        THEN <<[id |-> NotificationId("reminder", rid, "", 0),
                type |-> "reminder",
                relationshipId |-> Some(rid),
                date |-> today,
                days |-> days,
                isRead |-> FALSE,
                priority |-> ReminderPriority(days)]>>
        ELSE <<>>

MilestoneNotifications_Above(rid, row, today) ==
  LET daysSinceCreated == FloorDays(today - row.created_at)
  IN  IF row.relationship_strength_score > 80 /\ daysSinceCreated \in {30, 100, 365}
        THEN <<[id |-> NotificationId("milestone", rid, "", daysSinceCreated),
                type |-> "milestone",
                relationshipId |-> Some(rid),
                date |-> today,
                days |-> daysSinceCreated,
                isRead |-> FALSE,
                priority |-> "medium"]>>
        ELSE <<>>

MilestoneNotifications(rid, row, today) ==
  LET daysSinceCreated == FloorDays(today - row.created_at)
  IN  IF row.relationship_strength_score >= 80 /\ daysSinceCreated \in {30, 100, 365}
        THEN <<[id |-> NotificationId("milestone", rid, "", daysSinceCreated),
                type |-> "milestone",
                relationshipId |-> Some(rid),
                date |-> today,
                days |-> daysSinceCreated,
                isRead |-> FALSE,
                priority |-> "medium"]>>
        ELSE <<>>

RelationshipNotifications_ReminderFirst(rid, row, today) ==
  ReminderNotifications(rid, row, today)
    \o DateNotifications(rid, row, today)
    \o MilestoneNotifications(rid, row, today)

(* The body of relationships.forEach *)
RelationshipNotifications(rid, row, today) ==
  DateNotifications(rid, row, today)
    \o ReminderNotifications(rid, row, today)
    \o MilestoneNotifications(rid, row, today)

RECURSIVE ForEachRelationship(_, _, _)
ForEachRelationship(order, rows, today) ==
  IF order = <<>> THEN <<>>
  ELSE RelationshipNotifications(Head(order), rows[Head(order)], today)
         \o ForEachRelationship(Tail(order), rows, today)

(* The rows of the current user, in one of the orders the select can return. *)
Orders(S) == {o \in [1..Cardinality(S) -> S] : \A i, j \in DOMAIN o : i # j => o[i] # o[j]}

-----------------------------------------------------------------------------
(* generateNotifications: the suggestions query and its notifications *)

SuggestionLimit == 3
SuggestionDays == 3

Qualifying(today) ==
  {sg \in ai_suggestions :
     /\ sg.user_id = User
     /\ ~sg.is_acted_on
     /\ sg.generated_at >= addDays(today, 0 - SuggestionDays)}

SuggestionResults_Unlimited(today) ==
  {o \in Orders(Qualifying(today)) :
     \A i, j \in DOMAIN o : i < j => o[i].generated_at >= o[j].generated_at}

(* order('generated_at', descending).limit(3): rows of equal generated_at   *)
(* come in either order.                                                    *)
SuggestionResults(today) ==
  {SubSeq(o, 1, Min(Len(o), SuggestionLimit)) :
     o \in {o \in Orders(Qualifying(today)) :
              \A i, j \in DOMAIN o : i < j => o[i].generated_at >= o[j].generated_at}}

SuggestionNotification(sg) ==
  [id |-> NotificationId("suggestion", sg.id, "", 0),
   type |-> "suggestion",
   relationshipId |-> sg.relationship_id,
   date |-> sg.generated_at,
   days |-> 0,
   isRead |-> FALSE,
   priority |-> "low"]

-----------------------------------------------------------------------------
(* generateNotifications: the sort *)

priorityOrder == [high |-> 3, medium |-> 2, low |-> 1]

Compare_Ascending(a, b) ==
  IF priorityOrder[a.priority] # priorityOrder[b.priority]
    THEN priorityOrder[a.priority] - priorityOrder[b.priority]
    ELSE a.date - b.date

(* The comparator of notifications.sort *)
Compare(a, b) ==
  IF priorityOrder[a.priority] # priorityOrder[b.priority]
    THEN priorityOrder[b.priority] - priorityOrder[a.priority]
    ELSE a.date - b.date

(* Array.prototype.sort is stable: an element goes behind every element it  *)
(* does not precede.                                                        *)
RECURSIVE Insert(_, _)
Insert(sorted, x) ==
  IF sorted = <<>> THEN <<x>>
  ELSE LET last == sorted[Len(sorted)]
       IN  IF Compare(last, x) <= 0 THEN Append(sorted, x)
           ELSE Append(Insert(SubSeq(sorted, 1, Len(sorted) - 1), x), last)

RECURSIVE Sort(_)
Sort(list) ==
  IF list = <<>> THEN <<>>
  ELSE Insert(Sort(SubSeq(list, 1, Len(list) - 1)), list[Len(list)])

-----------------------------------------------------------------------------
(* Actions of the NotificationCenter *)

RemoveAt(seq, i) == SubSeq(seq, 1, i - 1) \o SubSeq(seq, i + 1, Len(seq))

(* History: pass i has presented its list.  Each pass in flight that was     *)
(* started before it keeps, as overtaken, the list presented by the most     *)
(* recently started pass that was started after it and has ended; a pass i   *)
(* that was overtaken itself leaves the marks as they are.                   *)
Overtake(passes, i, list) ==
  [j \in DOMAIN passes |->
     IF j < i /\ passes[i].overtaken = NULL
       THEN [passes[j] EXCEPT !.overtaken = Some(list)]
       ELSE passes[j]]

(* The panel is opened: the effect on [isOpen, user] starts a pass, which   *)
(* sets loading and issues the relationships select.                        *)
OpenCenter ==
  /\ ~isOpen
  /\ isOpen' = TRUE
  /\ loading' = TRUE
  /\ pass' = Append(pass, [pc |-> "relationships", today |-> 0,
                           rows |-> <<>>, order |-> <<>>, list |-> <<>>,
                           overtaken |-> NULL])
  /\ lastOp' = [NoOp EXCEPT !.op = "open"]
  /\ UNCHANGED <<clockVars, storeVars, handlerVars, notifications, derived, lidWrites>>

(* onClose *)
CloseCenter ==
  /\ isOpen
  /\ isOpen' = FALSE
  /\ lastOp' = [NoOp EXCEPT !.op = "close"]
  /\ UNCHANGED <<clockVars, storeVars, handlerVars, notifications, loading, pass,
                 derived, lidWrites>>

(* The relationships select of pass i returns.  On an error the pass ends   *)
(* in the catch block; otherwise the relationship candidates are built with *)
(* today taken at this moment and the suggestions select is issued.         *)
RelationshipsFetched(i, error, order) ==
  /\ i \in DOMAIN pass
  /\ pass[i].pc = "relationships"
  /\ IF error
       THEN /\ pass' = RemoveAt(pass, i)
            /\ loading' = FALSE
            /\ lastOp' = [NoOp EXCEPT !.op = "fetchError"]
       ELSE LET today == startOfDay(now)
            IN  /\ pass' = [pass EXCEPT ![i] =
                     [pc |-> "suggestions", today |-> today,
                      rows |-> relationships, order |-> order,
                      list |-> ForEachRelationship(order, relationships, today),
                      overtaken |-> pass[i].overtaken]]
                /\ loading' = loading
                /\ lastOp' = [NoOp EXCEPT !.op = "fetched"]
  /\ UNCHANGED <<clockVars, storeVars, handlerVars, notifications, isOpen, derived,
                 lidWrites>>

SuggestionsFetched_Appending(i, error, result) ==
  /\ i \in DOMAIN pass
  /\ pass[i].pc = "suggestions"
  /\ LET suggestions == IF error THEN <<>> ELSE result
         list == pass[i].list \o
                   [k \in 1..Len(suggestions) |-> SuggestionNotification(suggestions[k])]
     IN  notifications' = notifications \o Sort(list)
  /\ derived' = [today |-> pass[i].today, rows |-> pass[i].rows, order |-> pass[i].order,
                 suggestions |-> IF error THEN <<>> ELSE result]
  /\ loading' = FALSE
  /\ pass' = RemoveAt(Overtake(pass, i, notifications'), i)
  /\ lastOp' = [NoOp EXCEPT !.op = IF error THEN "suggestionsError" ELSE "feed",
                            !.again = derived' = derived,
                            !.stale = pass[i].overtaken]
  /\ UNCHANGED <<clockVars, storeVars, handlerVars, isOpen, lidWrites>>

(* The suggestions select of pass i returns; its error is not inspected and *)
(* leaves the data null.  The list is sorted and becomes the feed.          *)
SuggestionsFetched(i, error, result) ==
  /\ i \in DOMAIN pass
  /\ pass[i].pc = "suggestions"
  /\ LET suggestions == IF error THEN <<>> ELSE result
         list == pass[i].list \o
                   [k \in 1..Len(suggestions) |-> SuggestionNotification(suggestions[k])]
     IN  notifications' = Sort(list)
  /\ derived' = [today |-> pass[i].today, rows |-> pass[i].rows, order |-> pass[i].order,
                 suggestions |-> IF error THEN <<>> ELSE result]
  /\ loading' = FALSE
  /\ pass' = RemoveAt(Overtake(pass, i, notifications'), i)
  /\ lastOp' = [NoOp EXCEPT !.op = IF error THEN "suggestionsError" ELSE "feed",
                            !.again = derived' = derived,
                            !.stale = pass[i].overtaken]
  /\ UNCHANGED <<clockVars, storeVars, handlerVars, isOpen, lidWrites>>

FeedNext ==
  \/ pass = <<>> /\ OpenCenter
  \/ CloseCenter
  \/ \E order \in Orders(DOMAIN relationships) :
        RelationshipsFetched(1, FALSE, order)
  \/ RelationshipsFetched(1, TRUE, <<>>)
  \/ \E result \in (IF pass # <<>> /\ pass[1].pc = "suggestions"
                       THEN SuggestionResults(pass[1].today) ELSE {}) :
        SuggestionsFetched(1, FALSE, result)
  \/ SuggestionsFetched(1, TRUE, <<>>)

-----------------------------------------------------------------------------
(* The notification center over a store that earlier operations have left.  *)

FeedNows == {Instant(2025, 1, 10, 2), Instant(2024, 12, 20, 23)}
TzOffsets == {0 - 5, 0, 5}

StoredDate(m, d) == [y |-> 2000, m |-> m, d |-> d]
Entry(name, m, d) == [name |-> name, date |-> StoredDate(m, d)]

EntryDays == {<<1, 5>>, <<1, 10>>, <<1, 13>>, <<1, 14>>, <<1, 17>>, <<1, 18>>,
              <<2, 9>>, <<2, 10>>, <<12, 21>>, <<1, 19>>}

DateJsons ==
  {<<>>}
    \cup {<<Entry("Birthday", md[1], md[2])>> : md \in EntryDays}
    \cup {<<Entry("Anniversary", 1, 13), Entry("Birthday", 2, 9)>>,
          <<Entry("Anniversary", 1, 17), Entry("Birthday", 1, 10)>>}

FeedRow(dates, score, created, lid) ==
  [NewRelationship(dates, created)
     EXCEPT !.relationship_strength_score = score, !.last_interaction_date = lid]

(* Score, creation time and last interaction of the first relationship. *)
Profiles1(t) ==
  {<<50, t - 5 * 24, NULL>>,
   <<85, startOfDay(t) - 100 * 24 - 3, Some(t - 8 * 24)>>,
   <<85, startOfDay(t) - 100 * 24 - 3, Some(t - 24)>>}

Profiles2(t) ==
  {<<50, t - 40 * 24, Some(t - 20 * 24)>>}

Rows1(t) == {FeedRow(dj, pr[1], pr[2], pr[3]) : dj \in DateJsons, pr \in Profiles1(t)}
Rows2(t) == {FeedRow(dj, pr[1], pr[2], pr[3]) :
               dj \in {<<Entry("Birthday", 1, 17)>>}, pr \in Profiles2(t)}

FeedStores(t) ==
  {<<>>} \cup {<<r1>> : r1 \in Rows1(t)}
         \cup {<<r1, r2>> : r1 \in Rows1(t), r2 \in Rows2(t)}

Suggestion(id, rel, generated, acted) ==
  [id |-> id, user_id |-> User, relationship_id |-> rel,
   generated_at |-> generated, is_acted_on |-> acted]

FeedSuggestions(t, rows) ==
  LET rel == IF Len(rows) > 0 THEN Some(1) ELSE NULL
  IN  {{},
       {Suggestion(1, rel, t - 1, FALSE), Suggestion(2, NULL, t - 30, FALSE),
        Suggestion(3, NULL, t - 2, TRUE), Suggestion(4, rel, t - 5 * 24, FALSE)}}

FeedInit ==
  /\ now \in FeedNows
  /\ tz \in TzOffsets
  /\ relationships \in FeedStores(now)
  /\ interaction_logs = {}
  /\ ai_suggestions \in FeedSuggestions(now, relationships)
  /\ nextId = [rel |-> Len(relationships), log |-> 0, stmt |-> 0]
  /\ logger = Idle
  /\ sender = Idle
  /\ notifications = <<>>
  /\ loading = TRUE
  /\ isOpen = FALSE
  /\ pass = <<>>
  /\ derived = NoFeed
  /\ lastOp = NoOp
  /\ lidWrites = {}

FeedSpec == FeedInit /\ [][FeedNext]_vars

-----------------------------------------------------------------------------
(* A session with the notification center: read marks, navigation, passes   *)
(* one after another, the clock moving and relationships deleted.           *)

markAsRead_All(prev, notificationId) ==
  [k \in DOMAIN prev |-> [prev[k] EXCEPT !.isRead = TRUE]]

(* The updater of markAsRead, applied to the previous list. *)
markAsRead(prev, notificationId) ==
  [k \in DOMAIN prev |->
     IF prev[k].id = notificationId THEN [prev[k] EXCEPT !.isRead = TRUE] ELSE prev[k]]

unreadCount == Cardinality({k \in DOMAIN notifications : ~notifications[k].isRead})

(* Every notification but the milestone carries an actionUrl. *)
HasActionUrl(n) == n.type # "milestone"

markAllAsRead_Persisting ==
  /\ isOpen
  /\ Len(notifications) > 0
  /\ unreadCount > 0
  /\ notifications' = [k \in DOMAIN notifications |-> [notifications[k] EXCEPT !.isRead = TRUE]]
  /\ ai_suggestions' = {[sg EXCEPT !.is_acted_on = TRUE] : sg \in ai_suggestions}
  /\ lastOp' = [NoOp EXCEPT !.op = "markAllAsRead"]
  /\ UNCHANGED <<clockVars, relationships, interaction_logs, nextId, handlerVars,
                 loading, isOpen, pass, derived, lidWrites>>

(* The footer button. *)
markAllAsRead ==
  /\ isOpen
  /\ Len(notifications) > 0
  /\ unreadCount > 0
  /\ notifications' = [k \in DOMAIN notifications |-> [notifications[k] EXCEPT !.isRead = TRUE]]
  /\ lastOp' = [NoOp EXCEPT !.op = "markAllAsRead"]
  /\ UNCHANGED <<clockVars, storeVars, handlerVars, loading, isOpen, pass, derived,
                 lidWrites>>

(* A click on the k-th notification of the list: markAsRead, and with an    *)
(* actionUrl the assignment to window.location.href, which loads the page   *)
(* anew and with it the component in its initial state.                     *)
handleNotificationClick(k) ==
  /\ isOpen
  /\ ~loading
  /\ k \in DOMAIN notifications
  /\ IF HasActionUrl(notifications[k])
       THEN /\ notifications' = <<>>
            /\ loading' = TRUE
            /\ isOpen' = FALSE
            /\ pass' = <<>>
            /\ derived' = NoFeed
            /\ lastOp' = [NoOp EXCEPT !.op = "navigate"]
       ELSE /\ notifications' = markAsRead(notifications, notifications[k].id)
            /\ lastOp' = [NoOp EXCEPT !.op = "markAsRead"]
            /\ UNCHANGED <<loading, isOpen, pass, derived>>
  /\ UNCHANGED <<clockVars, storeVars, handlerVars, lidWrites>>

SessionStep == 3

SessionNext ==
  \/ Len(pass) < MaxPasses /\ OpenCenter
  \/ CloseCenter
  \/ \E i \in 1..MaxPasses, order \in Orders(DOMAIN relationships) :
        RelationshipsFetched(i, FALSE, order)
  \/ \E i \in 1..MaxPasses : RelationshipsFetched(i, TRUE, <<>>)
  \/ \E i \in 1..MaxPasses :
        \E result \in (IF i \in DOMAIN pass /\ pass[i].pc = "suggestions"
                         THEN SuggestionResults(pass[i].today) ELSE {}) :
          SuggestionsFetched(i, FALSE, result)
  \/ \E i \in 1..MaxPasses : SuggestionsFetched(i, TRUE, <<>>)
  \/ \E k \in DOMAIN notifications : handleNotificationClick(k)
  \/ markAllAsRead
  \/ now = StartNow /\ Tick(SessionStep)
  \/ \E r \in DOMAIN relationships : handleDeleteRelationship(r)

SessionRow1(t) ==
  FeedRow(<<Entry("Birthday", 1, 17)>>, 85, startOfDay(t) - 100 * 24 - 3, NULL)
SessionRow2(t) ==
  FeedRow(<<Entry("Birthday", 1, 17)>>, 50, t - 40 * 24, Some(t - 20 * 24))

(* Deleting relationships leads to the smaller stores. *)
SessionStores(t) == {<<SessionRow1(t), SessionRow2(t)>>}

SessionSuggestions(t) ==
  {{}, {Suggestion(1, NULL, t - 1, FALSE), Suggestion(2, NULL, t - 1, FALSE)}}

SessionInit ==
  /\ now = StartNow
  /\ tz = 0
  /\ relationships \in SessionStores(now)
  /\ interaction_logs = {}
  /\ ai_suggestions \in SessionSuggestions(now)
  /\ nextId = [rel |-> Len(relationships), log |-> 0, stmt |-> 0]
  /\ logger = Idle
  /\ sender = Idle
  /\ notifications = <<>>
  /\ loading = TRUE
  /\ isOpen = FALSE
  /\ pass = <<>>
  /\ derived = NoFeed
  /\ lastOp = NoOp
  /\ lidWrites = {}

SessionSpec == SessionInit /\ [][SessionNext]_vars

-----------------------------------------------------------------------------
(* Passes that overlap: the panel is closed and opened again while earlier   *)
(* passes wait for their fetches, and a relationship is deleted meanwhile.   *)

OverlapDeletes == {2}

OverlapNext ==
  \/ Len(pass) < MaxOverlap /\ OpenCenter
  \/ CloseCenter
  \/ \E i \in 1..MaxOverlap, order \in Orders(DOMAIN relationships) :
        RelationshipsFetched(i, FALSE, order)
  \/ \E i \in 1..MaxOverlap : RelationshipsFetched(i, TRUE, <<>>)
  \/ \E i \in 1..MaxOverlap :
        \E result \in (IF i \in DOMAIN pass /\ pass[i].pc = "suggestions"
                         THEN SuggestionResults(pass[i].today) ELSE {}) :
          SuggestionsFetched(i, FALSE, result)
  \/ \E i \in 1..MaxOverlap : SuggestionsFetched(i, TRUE, <<>>)
  \/ \E k \in DOMAIN notifications : handleNotificationClick(k)
  \/ markAllAsRead
  \/ \E r \in OverlapDeletes : handleDeleteRelationship(r)

OverlapSpec == SessionInit /\ [][OverlapNext]_vars

-----------------------------------------------------------------------------
(* The notification center over relationships at the thresholds of the      *)
(* reminder and milestone rules and suggestions around the query's limits.  *)

OtherUser == "u2"

(* Hours from last_interaction_date to the start of today. *)
LidAges == {0 - 48, 6 * 24 + 23, 7 * 24, 13 * 24 + 23, 14 * 24, 29 * 24 + 23, 30 * 24}

(* Hours from created_at to the start of today. *)
CreatedAges == {29 * 24 + 23, 30 * 24, 30 * 24 + 23, 31 * 24, 99 * 24 + 23, 100 * 24,
                365 * 24 + 5, 366 * 24}

ReminderRows(t) ==
  {FeedRow(<<>>, 50, t - 5 * 24, lid) :
     lid \in {NULL} \cup {Some(startOfDay(t) - a) : a \in LidAges}}

MilestoneRows(t) ==
  {FeedRow(<<>>, score, startOfDay(t) - a, Some(t - 24)) :
     score \in {79, 80}, a \in CreatedAges}
    \cup {FeedRow(<<>>, 100, startOfDay(t) - 100 * 24, NULL)}

(* An important date that does not parse, in a relationship with a reminder *)
(* and a milestone of its own.                                              *)
MalformedRows(t) ==
  {FeedRow(<<Entry("Birthday", 13, 1)>>, 85, startOfDay(t) - 100 * 24, NULL)}

CandidateRows(t) == ReminderRows(t) \cup MilestoneRows(t) \cup MalformedRows(t)

CandidateStores(t) ==
  {<<>>} \cup {<<r1>> : r1 \in CandidateRows(t)}
         \cup {<<r1, r2>> : r1 \in CandidateRows(t), r2 \in Rows2(t)}

(* More qualifying suggestions than the limit, two of them of one           *)
(* generated_at at the limit, next to rows the filters leave out.           *)
CandidateSuggestions(t, rows) ==
  FeedSuggestions(t, rows) \cup
    {{Suggestion(1, NULL, t - 1, FALSE),
      Suggestion(2, NULL, t - 2, FALSE),
      Suggestion(3, NULL, startOfDay(t) - SuggestionDays * 24, FALSE),
      Suggestion(4, NULL, startOfDay(t) - SuggestionDays * 24, FALSE),
      Suggestion(5, NULL, startOfDay(t) - SuggestionDays * 24 - 1, FALSE),
      Suggestion(6, NULL, t - 1, TRUE),
      [Suggestion(7, NULL, t - 1, FALSE) EXCEPT !.user_id = OtherUser]}}

CandidateNow == Instant(2024, 12, 20, 23)

CandidateInit ==
  /\ now = CandidateNow
  /\ tz \in TzOffsets
  /\ relationships \in CandidateStores(now)
  /\ interaction_logs = {}
  /\ ai_suggestions \in CandidateSuggestions(now, relationships)
  /\ nextId = [rel |-> Len(relationships), log |-> 0, stmt |-> 0]
  /\ logger = Idle
  /\ sender = Idle
  /\ notifications = <<>>
  /\ loading = TRUE
  /\ isOpen = FALSE
  /\ pass = <<>>
  /\ derived = NoFeed
  /\ lastOp = NoOp
  /\ lidWrites = {}

CandidateSpec == CandidateInit /\ [][FeedNext]_vars

-----------------------------------------------------------------------------
(* Row level security: the requests of several authenticated users, each    *)
(* carrying the id of its user as auth.uid().                               *)

MaxRequests == 3      \* requests the users send in one behaviour

Users == {User, OtherUser}

relationships_policy_Open(uid, row) == TRUE

(* USING (user_id = auth.uid()) and WITH CHECK (user_id = auth.uid()) of the *)
(* four policies on relationships.                                           *)
relationships_policy(uid, row) == row.user_id = uid

(* The policies on interaction_logs: a relationship with the id of the log's *)
(* relationship_id and the user_id of the request exists.                    *)
interaction_logs_policy(uid, log) ==
  \E r \in DOMAIN relationships :
     r = log.relationship_id /\ relationships_policy(uid, relationships[r])

Request(op, uid, rel) == [op |-> op, uid |-> uid, rel |-> rel, seen |-> {}, ok |-> TRUE]

(* from('relationships').insert([{user_id: owner, ...}]): the new row has to *)
(* pass WITH CHECK.                                                          *)
InsertRelationshipAs(uid, owner) ==
  /\ nextId.stmt < MaxRequests
  /\ LET id  == nextId.rel + 1
         row == [NewRelationship(<<>>, now) EXCEPT !.user_id = owner]
         ok  == relationships_policy(uid, row)
     IN  /\ relationships' =
               IF ok THEN [r \in DOMAIN relationships \cup {id} |->
                             IF r = id THEN row ELSE relationships[r]]
                     ELSE relationships
         /\ nextId' = [nextId EXCEPT !.rel = IF ok THEN id ELSE @, !.stmt = @ + 1]
         /\ lastOp' = [Request("insertRelationship", uid, id) EXCEPT !.ok = ok]
  /\ UNCHANGED <<clockVars, interaction_logs, ai_suggestions, handlerVars, feedVars, lidWrites>>

(* from('relationships').update(set).eq('id', r): USING selects the rows the *)
(* statement can touch, and as the policy has no WITH CHECK of its own the   *)
(* same expression has to hold of the row as written.  A statement that      *)
(* finds no row succeeds.                                                    *)
UpdateRelationshipAs(uid, r, set) ==
  /\ nextId.stmt < MaxRequests
  /\ IF r \in DOMAIN relationships /\ relationships_policy(uid, relationships[r])
       THEN LET res == ExecUpdate(relationships[r], set, now)
                ok  == ScoreCheck(res.row) /\ relationships_policy(uid, res.row)
            IN  /\ relationships' = IF ok THEN [relationships EXCEPT ![r] = res.row]
                                          ELSE relationships
                /\ lastOp' = [Request("updateRelationship", uid, r)
                                EXCEPT !.ok = ok, !.seen = {r}]
       ELSE /\ relationships' = relationships
            /\ lastOp' = Request("updateRelationship", uid, r)
  /\ nextId' = [nextId EXCEPT !.stmt = @ + 1]
  /\ UNCHANGED <<clockVars, interaction_logs, ai_suggestions, handlerVars, feedVars, lidWrites>>

DeleteRelationshipAs_NoCascade(uid, r) ==
  /\ nextId.stmt < MaxRequests
  /\ IF r \in DOMAIN relationships /\ relationships_policy(uid, relationships[r])
       THEN /\ relationships' = [x \in DOMAIN relationships \ {r} |-> relationships[x]]
            /\ UNCHANGED <<interaction_logs, ai_suggestions>>
            /\ lastOp' = [Request("deleteRelationship", uid, r) EXCEPT !.seen = {r}]
       ELSE /\ UNCHANGED <<relationships, interaction_logs, ai_suggestions>>
            /\ lastOp' = Request("deleteRelationship", uid, r)
  /\ nextId' = [nextId EXCEPT !.stmt = @ + 1]
  /\ UNCHANGED <<clockVars, handlerVars, feedVars, lidWrites>>

(* from('relationships').delete().eq('id', r), with the cascade to the logs  *)
(* and suggestions of the rows deleted.                                      *)
DeleteRelationshipAs(uid, r) ==
  /\ nextId.stmt < MaxRequests
  /\ IF r \in DOMAIN relationships /\ relationships_policy(uid, relationships[r])
       THEN /\ relationships' = [x \in DOMAIN relationships \ {r} |-> relationships[x]]
            /\ interaction_logs' = {l \in interaction_logs : l.relationship_id # r}
            /\ ai_suggestions' = {s \in ai_suggestions : s.relationship_id # Some(r)}
            /\ lastOp' = [Request("deleteRelationship", uid, r) EXCEPT !.seen = {r}]
       ELSE /\ UNCHANGED <<relationships, interaction_logs, ai_suggestions>>
            /\ lastOp' = Request("deleteRelationship", uid, r)
  /\ nextId' = [nextId EXCEPT !.stmt = @ + 1]
  /\ UNCHANGED <<clockVars, handlerVars, feedVars, lidWrites>>

(* from('relationships').select('*') *)
SelectRelationshipsAs(uid) ==
  /\ nextId.stmt < MaxRequests
  /\ lastOp' = [Request("selectRelationships", uid, 0) EXCEPT
                  !.seen = {r \in DOMAIN relationships :
                               relationships_policy(uid, relationships[r])}]
  /\ nextId' = [nextId EXCEPT !.stmt = @ + 1]
  /\ UNCHANGED <<clockVars, relationships, interaction_logs, ai_suggestions,
                 handlerVars, feedVars, lidWrites>>

(* from('interaction_logs').insert([{relationship_id: r, ...}]): the foreign *)
(* key and WITH CHECK.                                                       *)
InsertLogAs(uid, r) ==
  /\ nextId.stmt < MaxRequests
  /\ LET id  == nextId.log + 1
         log == [id |-> id, relationship_id |-> r, timestamp |-> now]
         ok  == r \in DOMAIN relationships /\ interaction_logs_policy(uid, log)
     IN  /\ interaction_logs' = IF ok THEN interaction_logs \cup {log} ELSE interaction_logs
         /\ nextId' = [nextId EXCEPT !.log = IF ok THEN id ELSE @, !.stmt = @ + 1]
         /\ lastOp' = [Request("insertLog", uid, r) EXCEPT !.ok = ok]
  /\ UNCHANGED <<clockVars, relationships, ai_suggestions, handlerVars, feedVars, lidWrites>>

(* from('interaction_logs').select('*') *)
SelectLogsAs(uid) ==
  /\ nextId.stmt < MaxRequests
  /\ lastOp' = [Request("selectLogs", uid, 0) EXCEPT
                  !.seen = {l.id : l \in {x \in interaction_logs :
                                             interaction_logs_policy(uid, x)}}]
  /\ nextId' = [nextId EXCEPT !.stmt = @ + 1]
  /\ UNCHANGED <<clockVars, relationships, interaction_logs, ai_suggestions,
                 handlerVars, feedVars, lidWrites>>

(* The SET lists of the clients: the logger's, and a change of owner. *)
AccessSets ==
  {[last_interaction_date |-> Some(now), updated_at |-> now]}
    \cup {[user_id |-> u] : u \in Users}

AccessNext ==
  \/ \E uid \in Users, owner \in Users : InsertRelationshipAs(uid, owner)
  \/ \E uid \in Users, r \in 1..nextId.rel, set \in AccessSets :
        UpdateRelationshipAs(uid, r, set)
  \/ \E uid \in Users, r \in 1..nextId.rel : DeleteRelationshipAs(uid, r)
  \/ \E uid \in Users : SelectRelationshipsAs(uid)
  \/ \E uid \in Users, r \in 1..nextId.rel : InsertLogAs(uid, r)
  \/ \E uid \in Users : SelectLogsAs(uid)

(* Two users with a relationship each, one log on each and a suggestion of   *)
(* each user linked to the user's relationship.                              *)
AccessInit ==
  /\ now = StartNow
  /\ tz = 0
  /\ relationships =
        <<FeedRow(<<>>, 50, now - SeedAge, Some(now - SeedAge)),
          [FeedRow(<<>>, 50, now - SeedAge, NULL) EXCEPT !.user_id = OtherUser]>>
  /\ interaction_logs = {[id |-> r, relationship_id |-> r, timestamp |-> now - SeedAge] :
                            r \in 1..2}
  /\ ai_suggestions = {Suggestion(1, Some(1), now - 1, FALSE),
                       [Suggestion(2, Some(2), now - 1, FALSE) EXCEPT !.user_id = OtherUser],
                       Suggestion(3, NULL, now - 1, FALSE)}
  /\ nextId = [rel |-> 2, log |-> 2, stmt |-> 0]
  /\ logger = Idle
  /\ sender = Idle
  /\ notifications = <<>>
  /\ loading = TRUE
  /\ isOpen = FALSE
  /\ pass = <<>>
  /\ derived = NoFeed
  /\ lastOp = NoOp
  /\ lidWrites = {}

AccessSpec == AccessInit /\ [][AccessNext]_vars

-----------------------------------------------------------------------------
(* The notification center over one relationship: strong, created 100 days   *)
(* before today, last contacted 40 days before today, with a birthday on the *)
(* fifth day after today, and no suggestions.                                *)

ScenarioNows ==
  {Instant(2025, 1, 10, 2), Instant(2025, 1, 10, 23), Instant(2024, 12, 28, 12),
   Instant(2024, 2, 24, 9), Instant(2025, 2, 24, 20), Instant(2025, 6, 30, 0),
   Instant(2025, 10, 27, 15), Instant(2025, 12, 31, 22)}

(* The stored date with the month and the day of the local day n. *)
DateOfDay(n) == StoredDate(Civil(n).m, Civil(n).d)

ScenarioRow(today) ==
  FeedRow(<<[name |-> "Birthday", date |-> DateOfDay((today + tz) \div HoursPerDay + 5)]>>,
          85, today - 100 * HoursPerDay, Some(today - 40 * HoursPerDay))

ScenarioInit ==
  /\ now \in ScenarioNows
  /\ tz \in TzOffsets
  /\ relationships = <<ScenarioRow(startOfDay(now))>>
  /\ interaction_logs = {}
  /\ ai_suggestions = {}
  /\ nextId = [rel |-> 1, log |-> 0, stmt |-> 0]
  /\ logger = Idle
  /\ sender = Idle
  /\ notifications = <<>>
  /\ loading = TRUE
  /\ isOpen = FALSE
  /\ pass = <<>>
  /\ derived = NoFeed
  /\ lastOp = NoOp
  /\ lidWrites = {}

ScenarioSpec == ScenarioInit /\ [][FeedNext]_vars

-----------------------------------------------------------------------------
(* callAI: the request to the AI service and the local fallback texts *)

(* Words of a prompt and the keywords their lower-case form contains. *)
Words == {"Gift", "presentation", "activity", "context", "ANALYZE", "hello"}

toLowerCase(word) ==
  CASE word = "Gift" -> "gift" [] word = "ANALYZE" -> "analyze" [] OTHER -> word

KeywordsIn(lower) ==
  CASE lower = "gift" -> {"gift"}
    [] lower = "presentation" -> {"present"}
    [] lower = "activity" -> {"activity"}
    [] lower = "context" -> {"text"}
    [] lower = "analyze" -> {"analyze"}
    [] OTHER -> {}

(* prompt.toLowerCase().includes(keyword) *)
includes(prompt, keyword) ==
  \E i \in DOMAIN prompt : keyword \in KeywordsIn(toLowerCase(prompt[i]))

getFallbackResponse(prompt) ==
  IF includes(prompt, "gift") \/ includes(prompt, "present") THEN "gift ideas"
  ELSE IF includes(prompt, "activity") \/ includes(prompt, "do together") THEN "activities"
  ELSE IF includes(prompt, "message") \/ includes(prompt, "text")
            \/ includes(prompt, "communicate") THEN "heartfelt message"
  ELSE IF includes(prompt, "analyze") \/ includes(prompt, "feedback") THEN "feedback"
  ELSE "general suggestions"

Returned(v) == [kind |-> "return", value |-> v]
Thrown == [kind |-> "throw", value |-> NULL]

(* data.choices[0]?.message?.content: reading choices of null or [0] of a    *)
(* missing choices throws a TypeError; a missing or null link of the         *)
(* optional chain gives undefined.                                           *)
MessageContent(data) ==
  IF data = NULL \/ Val(data).choices = NULL THEN Thrown
  ELSE LET choices == Val(Val(data).choices)
       IN  IF Len(choices) = 0 \/ choices[1] = NULL THEN Returned(NULL)
           ELSE IF Val(choices[1]).message = NULL THEN Returned(NULL)
           ELSE Returned(Val(Val(choices[1]).message).content)

(* The operand of || that makes it take its right side. *)
Falsy(v) == v = NULL \/ Val(v) = ""

(* The body of the try block. *)
TryRequest(prompt, env) ==
  IF env.fetch = "throws" THEN Thrown
  ELSE IF env.fetch = "notOk" THEN Returned(Some(getFallbackResponse(prompt)))
  ELSE IF ~env.parses THEN Thrown
  ELSE LET content == MessageContent(env.data)
       IN  IF content.kind = "throw" THEN Thrown
           ELSE IF Falsy(content.value) THEN Returned(Some(getFallbackResponse(prompt)))
           ELSE content

callAI_Uncaught(prompt, env) ==
  IF ~env.key
    THEN Returned(Some(getFallbackResponse(prompt)))
    ELSE TryRequest(prompt, env)

callAI(prompt, env) ==
  IF ~env.key
    THEN Returned(Some(getFallbackResponse(prompt)))
    ELSE LET res == TryRequest(prompt, env)
         IN  IF res.kind = "throw"
               THEN Returned(Some(getFallbackResponse(prompt)))
               ELSE res

(* What the service can answer with. *)
Contents == {NULL, Some(""), Some("AI text")}
Choices == {NULL} \cup {Some([message |-> NULL])}
             \cup {Some([message |-> Some([content |-> c])]) : c \in Contents}
Bodies ==
  {NULL, Some([choices |-> NULL]), Some([choices |-> Some(<<>>)])}
    \cup {Some([choices |-> Some(<<c>>)]) : c \in Choices}
    \cup {Some([choices |-> Some(<<c, Some([message |-> Some([content |-> Some("second")])])>>)]) :
             c \in Choices}

Envs == [key : BOOLEAN, fetch : {"throws", "notOk", "ok"}, parses : BOOLEAN, data : Bodies]

Prompts == {<<w>> : w \in Words} \cup {<<"hello", "Gift">>, <<"context", "ANALYZE">>}

(* One call of callAI with its outcome. *)
CallAI(prompt, env) ==
  /\ nextId.stmt < MaxRequests
  /\ nextId' = [nextId EXCEPT !.stmt = @ + 1]
  /\ lastOp' = [op |-> "callAI", prompt |-> prompt, env |-> env,
                result |-> callAI(prompt, env)]
  /\ UNCHANGED <<clockVars, relationships, interaction_logs, ai_suggestions,
                 handlerVars, feedVars, lidWrites>>

AINext == \E prompt \in Prompts, env \in Envs : CallAI(prompt, env)

AIInit ==
  /\ now = StartNow
  /\ tz = 0
  /\ relationships = <<>>
  /\ interaction_logs = {}
  /\ ai_suggestions = {}
  /\ nextId = [rel |-> 0, log |-> 0, stmt |-> 0]
  /\ logger = Idle
  /\ sender = Idle
  /\ notifications = <<>>
  /\ loading = TRUE
  /\ isOpen = FALSE
  /\ pass = <<>>
  /\ derived = NoFeed
  /\ lastOp = NoOp
  /\ lidWrites = {}

AISpec == AIInit /\ [][AINext]_vars

-----------------------------------------------------------------------------
(* The notification center over relationships and suggestions whose          *)
(* notifications fall on one date with one priority.                         *)

TieRow1(today) ==
  FeedRow(<<Entry("Anniversary", 1, 10), Entry("Birthday", 1, 10)>>,
          85, today - 100 * HoursPerDay, NULL)

TieRows2(today) ==
  {FeedRow(dates, 85, today - 30 * HoursPerDay, lid) :
     dates \in {<<>>, <<Entry("Birthday", 1, 10)>>},
     lid \in {NULL, Some(today - 20 * HoursPerDay), Some(today - 8 * HoursPerDay)}}

TieSuggestions(today) ==
  {{},
   {Suggestion(1, Some(1), today, FALSE), Suggestion(2, NULL, today, FALSE),
    Suggestion(3, Some(2), today - HoursPerDay, FALSE)}}

TieInit ==
  /\ now = StartNow
  /\ tz = 0
  /\ relationships \in {<<TieRow1(startOfDay(now)), r2>> : r2 \in TieRows2(startOfDay(now))}
  /\ interaction_logs = {}
  /\ ai_suggestions \in TieSuggestions(startOfDay(now))
  /\ nextId = [rel |-> 2, log |-> 0, stmt |-> 0]
  /\ logger = Idle
  /\ sender = Idle
  /\ notifications = <<>>
  /\ loading = TRUE
  /\ isOpen = FALSE
  /\ pass = <<>>
  /\ derived = NoFeed
  /\ lastOp = NoOp
  /\ lidWrites = {}

TieSpec == TieInit /\ [][FeedNext]_vars

-----------------------------------------------------------------------------
(* The upcoming dates of the relationship card and of the dashboard, both    *)
(* computed against the current instant t = new Date().                      *)

(* RelationshipCard.hasUpcomingEvent *)
hasUpcomingEvent(row, t) ==
  \E k \in DOMAIN row.important_dates_json :
     isWithinInterval(NextOccurrence(row.important_dates_json[k].date, t), t, addDays(t, 30))

(* The forEach of getNextEvent from entry k on, nextEvent being the event    *)
(* found so far: a later entry replaces it only with fewer days.             *)
RECURSIVE NextEventFrom(_, _, _, _)
NextEventFrom(dates, k, t, nextEvent) ==
  IF k > Len(dates) THEN nextEvent
  ELSE LET date      == NextOccurrence(dates[k].date, t)
           daysUntil == CeilDays(date - t)
           closer    == nextEvent = NULL \/ daysUntil < Val(nextEvent).daysUntil
       IN  NextEventFrom(dates, k + 1, t,
             IF closer /\ daysUntil <= 30
               THEN Some([name |-> dates[k].name, date |-> date, daysUntil |-> daysUntil])
               ELSE nextEvent)

(* RelationshipCard.getNextEvent *)
getNextEvent(row, t) == NextEventFrom(row.important_dates_json, 1, t, NULL)

(* Dashboard.calculateStats: whether a stored date adds to the count.        *)
(* thirtyDaysFromNow is t with its local day of the month raised by 30.      *)
CountsAsUpcoming(dateStr, t) == NextOccurrence(dateStr, t) <= addDays(t, 30)

(* Dashboard.calculateStats: upcomingDates *)
upcomingDates(rows, t) ==
  Cardinality({rk \in {<<r, k>> : r \in DOMAIN rows, k \in 1..2} :
                 /\ rk[2] \in DOMAIN rows[rk[1]].important_dates_json
                 /\ CountsAsUpcoming(rows[rk[1]].important_dates_json[rk[2]].date, t)})

-----------------------------------------------------------------------------
(* Logging an interaction for a relationship that has one logged already:    *)
(* log 0 was written, with its date, SeedAge before the start.               *)

LogStores ==
  {<<[NewRelationship(<<>>, StartNow - SeedAge - HoursPerDay)
        EXCEPT !.relationship_strength_score = s,
               !.last_interaction_date = Some(StartNow - SeedAge)]>> : s \in ScoreSeeds}

LogInit ==
  /\ now = StartNow
  /\ tz = 0
  /\ relationships \in LogStores
  /\ interaction_logs = {[id |-> 0, relationship_id |-> 1, timestamp |-> StartNow - SeedAge]}
  /\ ai_suggestions = {}
  /\ nextId = [rel |-> 1, log |-> 0, stmt |-> 0]
  /\ logger = Idle
  /\ sender = Idle
  /\ notifications = <<>>
  /\ loading = TRUE
  /\ isOpen = FALSE
  /\ pass = <<>>
  /\ derived = NoFeed
  /\ lastOp = NoOp
  /\ lidWrites = {0}

LogNext ==
  \/ \E d \in TickSteps : Tick(d)
  \/ \E r \in RelIds, k \in LoggerDeltas : LoggerInsert(r, now - k)
  \/ \E fails \in BOOLEAN : LoggerUpdate(fails)
  \/ \E r \in RelIds : SendInsert(r)
  \/ \E fails \in BOOLEAN : SendUpdate(fails)

LogSpec == LogInit /\ [][LogNext]_vars

-----------------------------------------------------------------------------
(* Properties of the notification feed *)

Rank(n) == CASE n.priority = "high" -> 3 [] n.priority = "medium" -> 2 [] n.priority = "low" -> 1

(* C9: for any two notifications a before b of a feed, priority(a) >=        *)
(* priority(b) under HIGH=3 > MEDIUM=2 > LOW=1, and with equal priorities     *)
(* eventDate(a) <= eventDate(b).                                              *)
C9_FeedOrdered ==
  \A i, j \in DOMAIN notifications :
    i < j =>
      /\ Rank(notifications[i]) >= Rank(notifications[j])
      /\ Rank(notifications[i]) = Rank(notifications[j])
           => notifications[i].date <= notifications[j].date

(* A feed holds all three priorities and two notifications of one priority   *)
(* with different dates, the later one generated first.                      *)
C9_Witness ==
  /\ lastOp.op = "feed"
  /\ {notifications[i].priority : i \in DOMAIN notifications} = {"high", "medium", "low"}
  /\ \E i, j \in DOMAIN notifications :
       /\ i < j
       /\ notifications[i].priority = notifications[j].priority
       /\ notifications[i].date < notifications[j].date
       /\ notifications[i].type = "suggestion"
       /\ notifications[j].type = "birthday"

(* Days from today to the occurrence the pass resolves for a stored date. *)
DaysUntil(entry, today) ==
  LET h == NextOccurrence(entry.date, today) - today
  IN  IF h % 24 = 0 THEN h \div 24 ELSE (h \div 24) + 1

DateNotificationsFor(r, name) ==
  {i \in DOMAIN notifications :
     /\ notifications[i].type \in {"birthday", "anniversary"}
     /\ notifications[i].relationshipId = Some(r)
     /\ notifications[i].id = NotificationId("date", r, name, 0)}

(* C10: for every important-date entry of every relationship the feed holds  *)
(* exactly one date notification when daysUntil is in 0..30 and none          *)
(* otherwise; its priority is HIGH for daysUntil <= 3, MEDIUM for 4..7, LOW   *)
(* for 8..30.                                                                 *)
C10_DateNotifications ==
  lastOp.op \in {"feed", "suggestionsError"} =>
    \A r \in DOMAIN derived.rows :
      \A k \in DOMAIN derived.rows[r].important_dates_json :
        LET entry == derived.rows[r].important_dates_json[k]
            du    == DaysUntil(entry, derived.today)
            found == DateNotificationsFor(r, entry.name)
        IN  IF du >= 0 /\ du <= 30
              THEN /\ Cardinality(found) = 1
                   /\ \A i \in found :
                        /\ du <= 3 => notifications[i].priority = "high"
                        /\ (3 < du /\ du <= 7) => notifications[i].priority = "medium"
                        /\ (7 < du /\ du <= 30) => notifications[i].priority = "low"
              ELSE found = {}

(* A feed shows a date 30 days ahead at LOW priority and leaves out a date    *)
(* of the same relationship list that is further away or past.               *)
C10_Witness ==
  /\ lastOp.op = "feed"
  /\ \E i \in DOMAIN notifications :
       /\ notifications[i].type = "birthday"
       /\ notifications[i].days = 30
       /\ notifications[i].priority = "low"
  /\ \E i \in DOMAIN notifications :
       /\ notifications[i].type = "anniversary"
       /\ notifications[i].days <= 3
       /\ notifications[i].priority = "high"

(* Whole days from the last interaction to the start of today; 999 without   *)
(* a last interaction.                                                        *)
DaysSinceLastInteraction(row, today) ==
  IF row.last_interaction_date = NULL THEN 999
  ELSE (today - Val(row.last_interaction_date)) \div 24

RemindersFor(r) ==
  {i \in DOMAIN notifications :
     notifications[i].type = "reminder" /\ notifications[i].relationshipId = Some(r)}

(* C11: for every relationship the feed holds exactly one reminder when       *)
(* daysSinceLastInteraction >= 7 (999 for a null lastInteractionDate) and     *)
(* none when it is 6 or less; its priority is HIGH for >= 30, MEDIUM for      *)
(* 14..29 and LOW for 7..13.                                                  *)
C11_Reminders ==
  lastOp.op \in {"feed", "suggestionsError"} =>
    \A r \in DOMAIN derived.rows :
      LET ds    == DaysSinceLastInteraction(derived.rows[r], derived.today)
          found == RemindersFor(r)
      IN  IF ds >= 7
            THEN /\ Cardinality(found) = 1
                 /\ \A i \in found :
                      /\ ds >= 30 => notifications[i].priority = "high"
                      /\ (14 <= ds /\ ds <= 29) => notifications[i].priority = "medium"
                      /\ (7 <= ds /\ ds <= 13) => notifications[i].priority = "low"
            ELSE found = {}

(* A feed holds the LOW reminder of a relationship last contacted exactly 7   *)
(* days before today next to the MEDIUM reminder of another one.              *)
C11_Witness ==
  /\ lastOp.op = "feed"
  /\ Len(derived.rows) = 2
  /\ DaysSinceLastInteraction(derived.rows[1], derived.today) = 7
  /\ \E i \in RemindersFor(1) : notifications[i].priority = "low"
  /\ \E i \in RemindersFor(2) : notifications[i].priority = "medium"

(* Whole days from created_at to the start of today. *)
DaysSinceCreated(row, today) == (today - row.created_at) \div 24

MilestonesFor(r) ==
  {i \in DOMAIN notifications :
     notifications[i].type = "milestone" /\ notifications[i].relationshipId = Some(r)}

(* C12: the feed holds a milestone notification of a relationship if and     *)
(* only if its strengthScore >= 80 and the whole days since createdAt are    *)
(* exactly 30, 100 or 365; the notification has MEDIUM priority and           *)
(* eventDate = today.                                                         *)
C12_Milestones ==
  lastOp.op \in {"feed", "suggestionsError"} =>
    \A r \in DOMAIN derived.rows :
      LET row   == derived.rows[r]
          found == MilestonesFor(r)
      IN  IF /\ row.relationship_strength_score >= 80
             /\ DaysSinceCreated(row, derived.today) \in {30, 100, 365}
            THEN /\ Cardinality(found) = 1
                 /\ \A i \in found : /\ notifications[i].priority = "medium"
                                     /\ notifications[i].date = derived.today
            ELSE found = {}

(* A feed holds the milestone of a relationship of score exactly 80 created  *)
(* 365 days and some hours before today.                                      *)
C12_Witness ==
  /\ lastOp.op = "feed"
  /\ \E r \in DOMAIN derived.rows :
       /\ derived.rows[r].relationship_strength_score = 80
       /\ DaysSinceCreated(derived.rows[r], derived.today) = 365
       /\ derived.today - derived.rows[r].created_at > 365 * 24
       /\ MilestonesFor(r) # {}

SuggestionsShown == {i \in DOMAIN notifications : notifications[i].type = "suggestion"}

(* The suggestions of the current user that are not acted on and were        *)
(* generated no earlier than 3 days before today.                            *)
Eligible(today) ==
  {sg \in ai_suggestions :
     sg.user_id = User /\ sg.is_acted_on = FALSE /\ sg.generated_at >= today - 3 * 24}

SourceOf(n) == {sg \in ai_suggestions : NotificationId("suggestion", sg.id, "", 0) = n.id}

(* C13: a feed holds at most 3 suggestion notifications; each corresponds to *)
(* a suggestion of the current user with isActedOn = false and generatedAt   *)
(* no earlier than 3 days before today, none of the suggestions left out is  *)
(* more recent than one shown (and none is left out below the limit when the *)
(* suggestions were fetched), and each has LOW priority.                     *)
C13_Suggestions ==
  lastOp.op \in {"feed", "suggestionsError"} =>
    /\ Cardinality(SuggestionsShown) <= 3
    /\ \A i \in SuggestionsShown :
         /\ notifications[i].priority = "low"
         /\ SourceOf(notifications[i]) # {}
         /\ SourceOf(notifications[i]) \subseteq Eligible(derived.today)
         /\ \A j \in SuggestionsShown : i # j => notifications[i].id # notifications[j].id
         /\ \A sg \in Eligible(derived.today) :
              (\A j \in SuggestionsShown : sg \notin SourceOf(notifications[j]))
                => sg.generated_at <= notifications[i].date
    /\ lastOp.op = "feed" =>
         Cardinality(SuggestionsShown) = Min(3, Cardinality(Eligible(derived.today)))

(* A feed shows 3 of 4 eligible suggestions, the third being one of two of   *)
(* the same generatedAt, while an acted-on, an older and another user's      *)
(* suggestion are in the store.                                              *)
C13_Witness ==
  /\ lastOp.op = "feed"
  /\ Cardinality(SuggestionsShown) = 3
  /\ Cardinality(Eligible(derived.today)) = 4
  /\ \E sg \in ai_suggestions : sg.user_id # User
  /\ \E sg \in ai_suggestions : sg.is_acted_on
  /\ \E i \in SuggestionsShown : \E sg \in Eligible(derived.today) :
       /\ sg \notin SourceOf(notifications[i])
       /\ sg.generated_at = notifications[i].date
       /\ \A j \in SuggestionsShown : sg \notin SourceOf(notifications[j])

(* The day number of the local civil date of an instant. *)
LocalDay(t) == (t + tz) \div 24

(* The first day with the stored month and day that is not before today. *)
CalendarOccurrence(dateStr, today) ==
  LET y        == Civil(LocalDay(today)).y
      thisYear == MakeDay(y, dateStr.m, dateStr.d)
  IN  IF thisYear >= LocalDay(today) THEN thisYear
                                     ELSE MakeDay(y + 1, dateStr.m, dateStr.d)

(* C14: for every stored important date and every today, the resolved next   *)
(* occurrence is the date with the same month and day in today's year when   *)
(* that date is not before today and in today's year + 1 when it is, and     *)
(* daysUntil is the number of calendar days from today to it, never          *)
(* negative.                                                                 *)
C14_Resolver ==
  lastOp.op \in {"feed", "suggestionsError"} =>
    \A r \in DOMAIN derived.rows :
      \A k \in DOMAIN derived.rows[r].important_dates_json :
        LET entry == derived.rows[r].important_dates_json[k]
            occ   == NextOccurrence(entry.date, derived.today)
            due   == CalendarOccurrence(entry.date, derived.today)
        IN  /\ LocalDay(occ) = due
            /\ DaysUntil(entry, derived.today) = due - LocalDay(derived.today)
            /\ DaysUntil(entry, derived.today) >= 0

(* A list as a pass leaves it: no notification read. *)
Fresh(list) == [k \in DOMAIN list |-> [list[k] EXCEPT !.isRead = FALSE]]

(* C15: a pass that was given the same today, the same relationships and the *)
(* same suggestions as the pass before it produces the same notification     *)
(* list: same ids, same fields, same order.                                  *)
C15_Idempotent ==
  [][(/\ lastOp'.op \in {"feed", "suggestionsError"}
      /\ derived # NoFeed
      /\ derived'.today = derived.today
      /\ derived'.rows = derived.rows
      /\ derived'.order = derived.order
      /\ derived'.suggestions = derived.suggestions)
       => notifications' = Fresh(notifications)]_vars

(* A second pass over two relationships and two suggestions has completed    *)
(* with the inputs of the first, later on the same day.                      *)
C15_Witness ==
  /\ lastOp.op = "feed"
  /\ lastOp.again
  /\ now # StartNow
  /\ Cardinality(DOMAIN derived.rows) = 2
  /\ Len(derived.suggestions) = 2
  /\ Len(notifications) = 7

(* C16: when the relationships fetch or the suggestions fetch of a pass      *)
(* fails, the pass is aborted: it presents no list of its own, so the feed   *)
(* stays as it was or is empty, and is never the relationship-derived        *)
(* notifications with the suggestion notifications missing.                  *)
C16_AbortOnFailure ==
  [][lastOp'.op \in {"fetchError", "suggestionsError"}
       => notifications' = notifications \/ notifications' = <<>>]_vars

(* What the panel renders: the skeleton while loading, the 'All caught up!'   *)
(* block for an empty list, the list otherwise.                              *)
Rendered ==
  IF ~isOpen THEN "closed"
  ELSE IF loading THEN "loading"
  ELSE IF Len(notifications) = 0 THEN "allCaughtUp"
  ELSE "list"

(* C17: when the relationships fetch of a pass has failed, the open panel     *)
(* shows an error or an explicitly-empty feed: neither the 'All caught up'    *)
(* state of a successful pass without notifications nor the list left over    *)
(* from an earlier pass.                                                      *)
C17_FailureShown ==
  lastOp.op = "fetchError" => Rendered \notin {"allCaughtUp", "list"}

Malformed(dateStr) == dateStr.m \notin 1..12

(* C18: an important-date value that does not parse does not abort the pass: *)
(* no date notification is emitted for that value, while the reminder and    *)
(* milestone of the same relationship and the candidates of every other      *)
(* relationship are emitted as for well-formed data.                         *)
C18_MalformedSkipped ==
  (/\ lastOp.op \in {"feed", "suggestionsError"}
   /\ \E r \in DOMAIN derived.rows : \E k \in DOMAIN derived.rows[r].important_dates_json :
        Malformed(derived.rows[r].important_dates_json[k].date))
    => /\ \A r \in DOMAIN derived.rows :
            \A k \in DOMAIN derived.rows[r].important_dates_json :
              LET entry == derived.rows[r].important_dates_json[k]
              IN  IF Malformed(entry.date)
                    THEN DateNotificationsFor(r, entry.name) = {}
                    ELSE Cardinality(DateNotificationsFor(r, entry.name)) =
                           IF DaysUntil(entry, derived.today) \in 0..30 THEN 1 ELSE 0
       /\ C11_Reminders
       /\ C12_Milestones

(* C19: after every derivation pass started by opening the notification      *)
(* center, every notification of the displayed feed has isRead = false: read *)
(* marks set before the center was closed are not there when it is open      *)
(* again and its pass has ended.                                             *)
C19_ReadMarksReset ==
  lastOp.op \in {"feed", "suggestionsError", "fetchError"}
    => \A k \in DOMAIN notifications : ~notifications[k].isRead

PassOps == {"open", "close", "fetched", "fetchError", "feed", "suggestionsError",
            "markAsRead", "markAllAsRead", "navigate"}

(* C20: a derivation pass, and markAsRead / markAllAsRead on its result,     *)
(* leave every persisted entity (relationships, interaction logs,            *)
(* suggestions) unchanged, for passes run one after another or overlapping.  *)
C20_ReadOnly ==
  [][lastOp'.op \in PassOps
       => UNCHANGED <<relationships, interaction_logs, ai_suggestions>>]_vars

(* The feed of a completed pass was marked read while two later passes are  *)
(* in flight, over a store that holds relationships and suggestions.         *)
C20_Witness ==
  /\ lastOp.op = "markAllAsRead"
  /\ Len(pass) >= 2
  /\ derived # NoFeed
  /\ DOMAIN relationships # {}
  /\ ai_suggestions # {}

AccessOps == {"insertRelationship", "updateRelationship", "deleteRelationship",
              "selectRelationships", "insertLog", "selectLogs"}

OwnedBy(uid, rows) == {r \in DOMAIN rows : rows[r].user_id = uid}

(* C21: in any sequence of requests by several authenticated users, a        *)
(* request reads, inserts, updates and deletes only relationships whose      *)
(* user_id is the id of its user and reads and inserts only interaction logs *)
(* of relationships that user owns; a request addressed to another user's    *)
(* row by its id leaves the row as it is.                                    *)
C21_OwnRowsOnly ==
  [][lastOp'.op \in AccessOps
       => LET uid    == lastOp'.uid
              before == OwnedBy(uid, relationships)
              after  == OwnedBy(uid, relationships')
          IN  /\ \A r \in DOMAIN relationships \ before :
                    r \in DOMAIN relationships' /\ relationships'[r] = relationships[r]
              /\ \A r \in DOMAIN relationships' \ after :
                    r \in DOMAIN relationships /\ relationships[r] = relationships'[r]
              /\ \A l \in interaction_logs' \ interaction_logs : l.relationship_id \in after
              /\ \A l \in interaction_logs \ interaction_logs' : l.relationship_id \in before
              /\ lastOp'.op \in {"selectRelationships", "updateRelationship",
                                 "deleteRelationship"} => lastOp'.seen \subseteq before
              /\ lastOp'.op = "selectLogs"
                    => \A l \in interaction_logs :
                          l.id \in lastOp'.seen => l.relationship_id \in before]_vars

(* An update or a delete addressed by id to a relationship of another user   *)
(* has been answered without an error and without a row, and the logs of     *)
(* that relationship are still there.                                        *)
C21_Witness ==
  /\ lastOp.op \in {"updateRelationship", "deleteRelationship"}
  /\ lastOp.rel \in DOMAIN relationships
  /\ relationships[lastOp.rel].user_id # lastOp.uid
  /\ lastOp.ok /\ lastOp.seen = {}
  /\ \E l \in interaction_logs : l.relationship_id = lastOp.rel

(* C22: in every reachable state each interaction log references an existing *)
(* relationship and each suggestion with a relationshipId references an      *)
(* existing relationship: a deletion removes the logs and the linked         *)
(* suggestions of the relationship in the same step.                         *)
C22_ReferencesExist ==
  /\ \A l \in interaction_logs : l.relationship_id \in DOMAIN relationships
  /\ \A s \in ai_suggestions :
        s.relationship_id # NULL => Val(s.relationship_id) \in DOMAIN relationships

(* A relationship that had a log and a linked suggestion has been deleted,   *)
(* while the log and suggestion of another relationship and a suggestion     *)
(* without a relationship are in the store.                                  *)
C22_Witness ==
  /\ lastOp.op = "deleteRelationship"
  /\ lastOp.seen = {lastOp.rel}
  /\ lastOp.rel \in 1..2
  /\ lastOp.rel \notin DOMAIN relationships
  /\ interaction_logs # {}
  /\ \E s \in ai_suggestions : s.relationship_id # NULL
  /\ \E s \in ai_suggestions : s.relationship_id = NULL

(* C23: for a single relationship with strengthScore 85, createdAt exactly   *)
(* 100 days before today, lastInteractionDate 40 days before today, one      *)
(* important date labelled Birthday 5 days after today and no suggestions, a *)
(* pass yields exactly three notifications: the REMINDER with HIGH priority  *)
(* first, then the two MEDIUM notifications, one BIRTHDAY and one MILESTONE, *)
(* by eventDate ascending.                                                   *)
C23_Scenario ==
  derived # NoFeed
    => /\ Len(notifications) = 3
       /\ notifications[1].type = "reminder" /\ notifications[1].priority = "high"
       /\ {notifications[2].type, notifications[3].type} = {"birthday", "milestone"}
       /\ notifications[2].priority = "medium" /\ notifications[3].priority = "medium"
       /\ notifications[2].date <= notifications[3].date

(* The pass has shown the three notifications in a zone east of UTC, with    *)
(* the milestone of today ahead of the birthday.                             *)
C23_Witness ==
  /\ lastOp.op = "feed"
  /\ tz > 0
  /\ Len(notifications) = 3
  /\ notifications[2].type = "milestone"
  /\ notifications[3].type = "birthday"
  /\ notifications[2].date = derived.today
  /\ notifications[3].date > derived.today

(* The response carries no message content: the chain data.choices[0]       *)
(* .message.content breaks off somewhere or ends in an empty text.           *)
NoMessageContent(data) ==
  \/ data = NULL
  \/ Val(data).choices = NULL
  \/ Val(Val(data).choices) = <<>>
  \/ Val(Val(data).choices)[1] = NULL
  \/ Val(Val(Val(data).choices)[1]).message = NULL
  \/ Val(Val(Val(Val(data).choices)[1]).message).content \in {NULL, Some("")}

(* C24: callAI never fails: with the API key missing, a response that is not *)
(* OK, a request or a response parsing that throws, or a response without    *)
(* message content it returns the local fallback text and raises no error.   *)
C24_CallAINeverFails ==
  lastOp.op = "callAI"
    => /\ lastOp.result.kind = "return"
       /\ (\/ ~lastOp.env.key
           \/ lastOp.env.fetch \in {"throws", "notOk"}
           \/ ~lastOp.env.parses
           \/ NoMessageContent(lastOp.env.data))
            => lastOp.result.value = Some(getFallbackResponse(lastOp.prompt))

(* A call with a key was answered OK with a body that parses and has no      *)
(* choices, and returned the fallback text for a prompt with a keyword.      *)
C24_Witness ==
  /\ lastOp.op = "callAI"
  /\ lastOp.env.key /\ lastOp.env.fetch = "ok" /\ lastOp.env.parses
  /\ lastOp.env.data = Some([choices |-> NULL])
  /\ lastOp.prompt = <<"context", "ANALYZE">>
  /\ lastOp.result = Returned(Some("heartfelt message"))

(* Where the pass generated a notification: the place of its relationship   *)
(* in the fetched rows, its rule, its entry in importantDates, and for a     *)
(* suggestion its place in the fetched suggestions.                          *)
GenRel(n) == CHOOSE k \in DOMAIN derived.order : derived.order[k] = Val(n.relationshipId)
GenRule(n) ==
  CASE n.type \in {"birthday", "anniversary"} -> 1
    [] n.type = "reminder" -> 2
    [] n.type = "milestone" -> 3
GenEntry(n) ==
  IF n.type \in {"birthday", "anniversary"}
    THEN LET dates == derived.rows[Val(n.relationshipId)].important_dates_json
         IN  CHOOSE k \in DOMAIN dates : dates[k].name = n.id.name
    ELSE 0
GenSuggestion(n) ==
  CHOOSE k \in DOMAIN derived.suggestions : derived.suggestions[k].id = n.id.ref

GeneratedBefore(a, b) ==
  IF a.type = "suggestion"
    THEN b.type = "suggestion" /\ GenSuggestion(a) < GenSuggestion(b)
    ELSE \/ b.type = "suggestion"
         \/ GenRel(a) < GenRel(b)
         \/ GenRel(a) = GenRel(b) /\ GenRule(a) < GenRule(b)
         \/ GenRel(a) = GenRel(b) /\ GenRule(a) = GenRule(b) /\ GenEntry(a) < GenEntry(b)

(* C25: two notifications of a feed with the same priority and the same      *)
(* eventDate appear in candidate-generation order: relationships in fetch    *)
(* order, within a relationship the date notifications (in importantDates    *)
(* order) before the reminder before the milestone, and every suggestion     *)
(* notification after every relationship notification.                       *)
C25_TiesInGenerationOrder ==
  derived # NoFeed
    => \A i, j \in DOMAIN notifications :
          (/\ i < j
           /\ notifications[i].priority = notifications[j].priority
           /\ notifications[i].date = notifications[j].date)
            => GeneratedBefore(notifications[i], notifications[j])

(* A feed of rows fetched against the order of their ids holds two dates and *)
(* the reminder of one relationship, the reminders of two relationships, and *)
(* a reminder and two suggestions, each group with one priority and date.    *)
C25_Witness ==
  /\ lastOp.op = "feed"
  /\ derived.order = <<2, 1>>
  /\ \E i, j, k \in DOMAIN notifications :
        /\ i < j /\ j < k
        /\ notifications[i].type = "anniversary" /\ notifications[j].type = "birthday"
        /\ notifications[k].type = "reminder"
        /\ notifications[i].relationshipId = notifications[k].relationshipId
        /\ notifications[j].relationshipId = notifications[k].relationshipId
        /\ notifications[i].priority = notifications[k].priority
        /\ notifications[j].priority = notifications[k].priority
        /\ notifications[i].date = notifications[k].date
        /\ notifications[j].date = notifications[k].date
  /\ \E i, j, k \in DOMAIN notifications :
        /\ i < j /\ j < k
        /\ notifications[i].type = "reminder"
        /\ notifications[j].type = "suggestion" /\ notifications[k].type = "suggestion"
        /\ notifications[i].priority = notifications[k].priority
        /\ notifications[i].date = notifications[j].date
        /\ notifications[i].date = notifications[k].date
        /\ notifications[j].id.ref > notifications[k].id.ref

(* C26: in every displayed feed the notification ids are pairwise distinct,  *)
(* also after the pass has been re-run any number of times in one session: a *)
(* re-run replaces the list of the pass before it, so that no event is       *)
(* listed twice.                                                             *)
C26_DistinctIds ==
  \A i, j \in DOMAIN notifications :
     i # j => IdText(notifications[i].id) # IdText(notifications[j].id)

(* A pass over the rows and suggestions of the pass before it has replaced a *)
(* feed that, for two relationships, holds dates, reminders, a milestone and *)
(* suggestions.                                                              *)
C26_Witness ==
  /\ lastOp.op = "feed"
  /\ lastOp.again
  /\ Len(notifications) >= 6
  /\ {"birthday", "reminder", "milestone", "suggestion"}
        \subseteq {notifications[k].type : k \in DOMAIN notifications}
  /\ \E i, j \in DOMAIN notifications :
        /\ notifications[i].type = "reminder" /\ notifications[j].type = "reminder"
        /\ notifications[i].relationshipId # notifications[j].relationshipId

(* The stored date has the month and the day of the local date of t. *)
IsToday(dateStr, t) ==
  LET c == Civil((t + tz) \div 24) IN dateStr.m = c.m /\ dateStr.d = c.d

(* C27: for an important date whose month and day are today's, every         *)
(* upcoming-date computation agrees, at any time of day, that it is upcoming *)
(* with daysUntil = 0: the feed (against the start of the day), the card's   *)
(* upcoming-event check and next-event badge and the dashboard's count of    *)
(* upcoming dates (against the current instant).                             *)
C27_TodayAgrees ==
  lastOp.op = "feed"
    => \A r \in DOMAIN relationships :
         \A k \in DOMAIN relationships[r].important_dates_json :
            LET e == relationships[r].important_dates_json[k]
            IN  IsToday(e.date, now)
                  => /\ \E i \in DateNotificationsFor(r, e.name) : notifications[i].days = 0
                     /\ hasUpcomingEvent(relationships[r], now)
                     /\ getNextEvent(relationships[r], now) # NULL
                     /\ Val(getNextEvent(relationships[r], now)).daysUntil = 0
                     /\ CountsAsUpcoming(e.date, now)
                     /\ upcomingDates(relationships, now) >= 1

LogsOf(r) == {l \in interaction_logs : l.relationship_id = r}

Latest(logs) == CHOOSE t \in {l.timestamp : l \in logs} : \A l \in logs : l.timestamp <= t

(* C28: after any sequence of successfully logged interactions for a         *)
(* relationship, its lastInteractionDate is the greatest timestamp among its *)
(* interaction logs; an interaction logged with an earlier timestamp does    *)
(* not move lastInteractionDate backward.                                    *)
C28_LastInteractionIsLatest ==
  (logger.pc = "idle" /\ sender.pc = "idle")
    => \A r \in DOMAIN relationships :
          (LogsOf(r) # {} /\ \A l \in LogsOf(r) : l.id \in lidWrites)
            => relationships[r].last_interaction_date = Some(Latest(LogsOf(r)))

(* C29: when derivation passes overlap, the feed displayed once all passes   *)
(* have completed is the result of the most recently started pass, whatever  *)
(* the order in which the fetches return.                                    *)
C29_LatestPassWins ==
  (lastOp.op \in {"feed", "suggestionsError"} /\ pass = <<>>)
    => (lastOp.stale = NULL \/ notifications = Val(lastOp.stale))

Unread(list) == Cardinality({k \in DOMAIN list : ~list[k].isRead})

(* C30: markAsRead(id) changes only the isRead flag of the notification with *)
(* that id, to true: every other notification, the order of the feed and     *)
(* every other field stay as they are, applying it twice equals applying it  *)
(* once, and between two derivation passes the unread count never increases. *)
C30_MarkAsReadFrame ==
  [][/\ \A k \in DOMAIN notifications :
          LET once == markAsRead(notifications, notifications[k].id)
          IN  /\ once = [notifications EXCEPT ![k].isRead = TRUE]
              /\ markAsRead(once, notifications[k].id) = once
     /\ lastOp'.op = "markAsRead"
          => \E k \in DOMAIN notifications :
                notifications' = [notifications EXCEPT ![k].isRead = TRUE]
     /\ lastOp'.op \notin {"feed", "suggestionsError"}
          => Unread(notifications') <= Unread(notifications)]_vars

(* A click has marked one notification of a feed of six as read, with        *)
(* unread notifications before and behind it.                                *)
C30_Witness ==
  /\ lastOp.op = "markAsRead"
  /\ Len(notifications) >= 6
  /\ Unread(notifications) = Len(notifications) - 1
  /\ \E k \in DOMAIN notifications :
        notifications[k].isRead /\ 1 < k /\ k < Len(notifications)

-----------------------------------------------------------------------------
(* Properties of the scoring trigger *)

Score(r) == relationships[r].relationship_strength_score

(* The last statement was an UPDATE that named last_interaction_date and    *)
(* found its row.                                                           *)
LidWritten ==
  /\ lastOp.op = "update"
  /\ lastOp.ok
  /\ "last_interaction_date" \in lastOp.cols
  /\ lastOp.rel \in DOMAIN relationships

(* Whole days between the written date and the write. *)
DaysSince == (now - Val(lastOp.lid)) \div 24

(* C1: after any sequence of creations and writes to lastInteractionDate,   *)
(* every relationship's strengthScore is in 0..100.                         *)
C1_ScoreInRange ==
  \A r \in DOMAIN relationships : Score(r) >= 0 /\ Score(r) <= 100

(* A write that would have taken the score past 100 left it at 100. *)
C1_Witness ==
  /\ LidWritten
  /\ lastOp.fires = 1
  /\ lastOp.prev + 10 > 100
  /\ Score(lastOp.rel) = 100

C3_NullReset ==
  (LidWritten /\ lastOp.lid = NULL) => Score(lastOp.rel) = 30

(* A null write took a score of 85 to 30. *)
C3_Witness ==
  /\ LidWritten
  /\ lastOp.lid = NULL
  /\ lastOp.prev = 85
  /\ Score(lastOp.rel) = 30

(* C4: every successful write to lastInteractionDate, a rewrite of the held  *)
(* value included, applies the scoring transition exactly once.              *)
C4_ExactlyOnce ==
  LidWritten =>
    /\ lastOp.fires = 1
    /\ Score(lastOp.rel) = ScoreCase(lastOp.prev, lastOp.lid, now)

(* A write of the date the row already held moved the score once. *)
C4_Witness ==
  /\ LidWritten
  /\ lastOp.lid # NULL
  /\ lastOp.lid = lastOp.prevLid
  /\ lastOp.fires = 1
  /\ Score(lastOp.rel) = lastOp.prev - 15

(* C5: once the handler that created an interaction log has finished, the    *)
(* log's relationship has received the lastInteractionDate write.            *)
C5_LogImpliesWrite ==
  (logger.pc = "idle" /\ sender.pc = "idle") =>
    \A l \in interaction_logs : l.id \in lidWrites

(* C6: a step that only advances time, or that writes a relationship field   *)
(* other than lastInteractionDate, leaves every strengthScore unchanged.     *)
C6_NoPassiveDecay ==
  [][(\/ lastOp'.op = "tick"
      \/ (lastOp'.op = "update" /\ "last_interaction_date" \notin lastOp'.cols))
      => \A r \in DOMAIN relationships :
            /\ r \in DOMAIN relationships'
            /\ relationships'[r].relationship_strength_score = Score(r)]_vars

(* Time has passed and left a relationship whose last interaction is more    *)
(* than 30 days old with a score above the one a decay would have given.     *)
C6_Witness ==
  /\ lastOp.op = "tick"
  /\ \E r \in DOMAIN relationships :
        /\ relationships[r].last_interaction_date # NULL
        /\ (now - Val(relationships[r].last_interaction_date)) \div 24 > 30
        /\ Score(r) = 100

(* C7 as stated: a write of a date later than the write time leaves the      *)
(* score unchanged.                                                          *)
C7_FutureUnchanged ==
  (LidWritten /\ lastOp.lid # NULL /\ now - Val(lastOp.lid) < 0) =>
    Score(lastOp.rel) = lastOp.prev

(* C7 amended: a write of a date later than the write time raises the score  *)
(* by 10, up to 100.                                                         *)
C7_FutureBoost ==
  (LidWritten /\ lastOp.lid # NULL /\ now - Val(lastOp.lid) < 0) =>
    Score(lastOp.rel) = (IF lastOp.prev + 10 < 100 THEN lastOp.prev + 10 ELSE 100)

(* A date 36 hours ahead of the write raised a score of 50 to 60. *)
C7_Witness ==
  /\ LidWritten
  /\ lastOp.lid # NULL
  /\ now - Val(lastOp.lid) < 0
  /\ lastOp.prev = 50
  /\ Score(lastOp.rel) = 60

(* C8: a relationship is created with strengthScore = 50 without the scoring *)
(* transition running, and afterwards the score changes only in a statement  *)
(* in which the scoring trigger ran for that relationship.                   *)
C8_ScoreWriters ==
  [][/\ \A r \in DOMAIN relationships' \ DOMAIN relationships :
          /\ relationships'[r].relationship_strength_score = 50
          /\ lastOp'.op = "insert"
          /\ lastOp'.fires = 0
     /\ \A r \in DOMAIN relationships \cap DOMAIN relationships' :
          relationships'[r].relationship_strength_score # Score(r)
            => (lastOp'.op = "update" /\ lastOp'.rel = r /\ lastOp'.fires >= 1)]_vars

(* A relationship has just been created: null date, score 50. *)
C8_Witness ==
  /\ lastOp.op = "insert"
  /\ lastOp.rel \in DOMAIN relationships
  /\ relationships[lastOp.rel].last_interaction_date = NULL
  /\ Score(lastOp.rel) = 50

====
